---- MODULE Spec2Model ----
(***************************************************************************)
(* Verification model of the pull-request review engine:                   *)
(*   - submit_pr_review (src/mcp/github-review-server.ts) with its helpers *)
(*     getPendingReviews, handleExistingPendingReview,                     *)
(*     addTrackingCommentMetadata and dismissPreviousChangeRequests;       *)
(*   - categorizeError, getRecoveryConfig, withErrorRecovery,              *)
(*     withBatchErrorRecovery and CircuitBreaker (utils/error-recovery);   *)
(*   - the thread and comment paging of fetchAllReviewThreads;             *)
(*   - analyzeExistingThreads, getDeduplicatedComments and                 *)
(*     planThreadActions (create-prompt/pr-review-prompt.ts).              *)
(* Every remote call is a suspension point, so the handler is modelled as  *)
(* one action per remote call, each covering the synchronous code up to    *)
(* the next await.                                                         *)
(***************************************************************************)
EXTENDS Integers, Sequences, FiniteSets, TLC

\* ------------------------------------------------------------------ bounds
\* number of reviews already on the pull request when the tool is invoked
MaxReviews == 2
\* number of metadata writes started on one tracking comment
MaxWrites == 3
\* number of execute calls that may overlap on one circuit breaker
MaxConcurrent == 2
\* number of execute calls made on the breaker
MaxCalls == 7
\* number of clock steps, and the length of one step in milliseconds
MaxTicks == 3
TickMs == 30000

\* --------------------------------------------------------------- variables
VARIABLES
  githubToken,      \* process.env.GITHUB_TOKEN is set
  claudeCommentId,  \* process.env.CLAUDE_COMMENT_ID: "unset" | "invalid" | "valid"
  reviews,          \* remote: the reviews of the pull request, in listing order
  commentBody,      \* remote: body of the tracking comment (sequence of tokens)
  pc,               \* position of the submit_pr_review invocation
  input,            \* [event, body, commit_id] handed to the tool
  local,            \* local variables of the invocation
  result,           \* value returned by the tool
  log,              \* remote calls issued by the invocation, in order
  writers,          \* concurrent addTrackingCommentMetadata calls: position and read body
  written,          \* the markers of the completed metadata writes, in order
  state,            \* CircuitBreaker.state
  failures,         \* CircuitBreaker.failures
  lastFailureTime,  \* CircuitBreaker.lastFailureTime
  now,              \* Date.now()
  executing,        \* the execute calls whose operation is in flight
  stats,            \* what the execute calls did so far
  thrown,           \* categorizeError: the value that was thrown
  category,         \* categorizeError: the category and the plan it selects
  batch,            \* withBatchErrorRecovery: the options of the call
  items,            \* per item, the withErrorRecovery call made for it
  results,          \* withBatchErrorRecovery: results
  errors,           \* withBatchErrorRecovery: errors
  batchPc,          \* position of the withBatchErrorRecovery call
  fetch,            \* fetchAllReviewThreads: position and thread-loop variables
  page,             \* fetchAllReviewThreads: the comment loop over one thread page
  githubData,       \* the fetched data the review prompt is built from
  threadAnalysis,   \* result of analyzeExistingThreads
  deduplicatedComments, \* result of getDeduplicatedComments
  threadActions,    \* result of planThreadActions
  extraction,       \* extractReviewMetadata / generateMetadataComment chain
  resolve,          \* resolve_review_thread call
  bulk              \* bulk_resolve_threads call

submitVars == <<githubToken, claudeCommentId, reviews, pc, input, local,
                result, log>>

writerVars == <<writers, written>>

breakerVars == <<state, failures, lastFailureTime, now, executing, stats>>

categorizeVars == <<thrown, category>>

batchVars == <<batch, items, results, errors, batchPc>>

fetchVars == <<fetch, page>>

promptVars == <<githubData, threadAnalysis, deduplicatedComments,
                threadActions>>

toolVars == <<extraction, resolve, bulk>>

utilVars == <<categorizeVars, batchVars, fetchVars, promptVars, toolVars>>

vars == <<githubToken, claudeCommentId, reviews, commentBody, pc, input,
          local, result, log, writers, written, state, failures,
          lastFailureTime, now, executing, stats, thrown, category, batch,
          items, results, errors, batchPc, fetch, page, githubData,
          threadAnalysis, deduplicatedComments, threadActions, extraction,
          resolve, bulk>>

\* ------------------------------------------------------------------- text
\* A body is a sequence of characters: "a" is visible text, " " is white
\* space and "S" stands for a credential-shaped character.
Char == {"a", " ", "S"}

SeqsUpTo(S, n) == UNION {[1..k -> S] : k \in 0..n}

\* the bodies a caller passes: empty, blank, blank once sanitized, text with
\* surrounding white space and text next to a credential
Bodies ==
  {<<>>, <<" ">>, <<"S">>, <<" ", "S">>, <<"a">>, <<"a", " ">>, <<"a", "S">>}

\* bodies a pending review may already carry
OldBodies == {<<>>, <<"a">>, <<" ", "a">>}

\* ContentSanitizer.sanitize: strips credential-shaped substrings
sanitizeContent(s) == SelectSeq(s, LAMBDA c : c # "S")

RECURSIVE trimStart(_)
trimStart(s) ==
  IF s # <<>> /\ Head(s) = " " THEN trimStart(Tail(s)) ELSE s

RECURSIVE trimEnd(_)
trimEnd(s) ==
  IF s # <<>> /\ s[Len(s)] = " " THEN trimEnd(SubSeq(s, 1, Len(s) - 1)) ELSE s

\* String.prototype.trim
trim(s) == trimEnd(trimStart(s))

\* the separator "\n\n---\n\n" between the old and the new content
Separator == <<"-">>

\* mutant of mergedBody: the separator is left out
mergedBody_NoSeparator(oldBody, newBody) ==
  LET merged == trim(oldBody) \o trim(newBody)
  IN IF merged # <<>> THEN merged ELSE newBody

\* handleExistingPendingReview: the body handed to submitReview
mergedBody(oldBody, newBody) ==
  LET old == IF trim(oldBody) # <<>> THEN trim(oldBody) ELSE <<>>
      new == IF trim(newBody) # <<>>
               THEN (IF old # <<>> THEN Separator ELSE <<>>) \o trim(newBody)
               ELSE <<>>
      merged == old \o new
  IN IF merged # <<>> THEN merged ELSE newBody

\* ---------------------------------------------------------------- reviews
BotUserId == 1
OtherUserId == 2

Events == {"APPROVE", "REQUEST_CHANGES", "COMMENT"}

\* state the platform records for a submitted review
StateOfEvent(e) ==
  CASE e = "APPROVE" -> "APPROVED"
    [] e = "REQUEST_CHANGES" -> "CHANGES_REQUESTED"
    [] OTHER -> "COMMENTED"

\* the reviews that may exist before the invocation
InitialReviewShapes ==
  [state : {"PENDING"}, user : {BotUserId}, body : OldBodies]
    \cup [state : {"PENDING"}, user : {OtherUserId}, body : {<<"a">>}]
    \cup [state : {"CHANGES_REQUESTED"}, user : {BotUserId, OtherUserId},
          body : {<<"a">>}]

InitialReviewLists ==
  { [i \in 1..Len(l) |-> [id |-> i, state |-> l[i].state, user |-> l[i].user,
                          body |-> l[i].body]] :
      l \in SeqsUpTo(InitialReviewShapes, MaxReviews) }

\* getPendingReviews: the filter applied to a successful listing
getPendingReviews(list) == SelectSeq(list, LAMBDA r : r.state = "PENDING")

\* position of the review with the given id in the listing (0 if absent)
IndexOf(list, id) ==
  IF \E i \in 1..Len(list) : list[i].id = id
    THEN CHOOSE i \in 1..Len(list) : list[i].id = id
    ELSE 0

SetState(list, id, st) ==
  [i \in 1..Len(list) |->
     IF list[i].id = id THEN [list[i] EXCEPT !.state = st] ELSE list[i]]

SetStateBody(list, id, st, b) ==
  [i \in 1..Len(list) |->
     IF list[i].id = id THEN [list[i] EXCEPT !.state = st, !.body = b]
     ELSE list[i]]

\* -------------------------------------------------------- tracking comment
HeadSha == "headsha"
\* commit_id is any string: absent, an abbreviated hash, a branch name
CommitIds == {"", "c0ffee1", "main"}

Text == [kind |-> "text", sha |-> "", reviewId |-> 0]
OldMarker == [kind |-> "marker", sha |-> "oldsha", reviewId |-> 0]

\* generateMetadataComment for the metadata built by addTrackingCommentMetadata
generateMetadataComment(commitSha, reviewId) ==
  [kind |-> "marker", sha |-> commitSha, reviewId |-> reviewId]

IsMarker(tok) == tok.kind = "marker"

\* metadataRegex.test(currentBody)
HasMarker(b) == \E i \in 1..Len(b) : IsMarker(b[i])

FirstMarker(b) == CHOOSE i \in 1..Len(b) :
                    IsMarker(b[i]) /\ \A j \in 1..(i - 1) : ~IsMarker(b[j])

\* addTrackingCommentMetadata: the body handed to updateComment.  The marker
\* pattern has no global flag, so String.replace rewrites the first match.
updatedBody(currentBody, metadataComment) ==
  IF HasMarker(currentBody)
    THEN [currentBody EXCEPT ![FirstMarker(currentBody)] = metadataComment]
    ELSE currentBody \o <<Text, metadataComment>>

MarkerCount(b) == Cardinality({i \in 1..Len(b) : IsMarker(b[i])})

\* tracking comments without a marker and with the marker of an earlier review
InitialCommentBodies == {<<Text>>, <<Text, OldMarker>>}

\* tracking comments as other writers may leave them: empty, or with a second
\* marker
EditedCommentBodies ==
  InitialCommentBodies \cup {<<>>, <<OldMarker, Text, OldMarker>>}

\* ----------------------------------------------------- submit_pr_review
NoReview == [id |-> 0, body |-> <<>>]

InitLocal ==
  [sanitizedBody |-> <<>>, headSha |-> "", pendingReview |-> NoReview,
   reviewId |-> 0, currentBody |-> <<>>, targets |-> <<>>,
   dismissedReviewIds |-> <<>>, errors |-> <<>>, metadata |-> "none",
   errorMessage |-> "", found |-> <<>>, dismissedCount |-> 0,
   success |-> FALSE]

NoResult ==
  [kind |-> "none", success |-> FALSE, review_id |-> 0, error |-> ""]

RecoveryPcs ==
  {"recovery.listReviews", "recovery.submitReview", "recovery.dismissReview"}

\* a remote call as recorded in the log: the operation, the review it names,
\* whether the remote accepted it, the body it carried and whether it was
\* issued by the try block ("main") or by the conflict recovery
Call(op, id, ok, arg) ==
  [op |-> op, id |-> id, ok |-> ok, arg |-> arg,
   phase |-> IF pc \in RecoveryPcs THEN "recovery" ELSE "main"]

ConflictMessage == "User can only have one pending review"

\* the structured error payload of the outer catch block
ErrorResult(msg) ==
  [kind |-> "error", success |-> FALSE, review_id |-> 0, error |-> msg]

\* the payload returned when the conflict recovery did not succeed
RecoveryFailedResult(msg) ==
  [kind |-> "recovery_failed", success |-> FALSE, review_id |-> 0,
   error |-> msg]

SuccessResult(kind, id) ==
  [kind |-> kind, success |-> TRUE, review_id |-> id, error |-> ""]

\* the outer catch block of submit_pr_review: the conflict message starts the
\* recovery, every other message is returned as an error payload
Throw(msg) ==
  IF msg = ConflictMessage
    THEN pc' = "recovery.listReviews" /\ result' = result
    ELSE pc' = "done" /\ result' = ErrorResult(msg)

\* commit_id || pr.data.head.sha
CommitSha == IF input.commit_id # "" THEN input.commit_id ELSE local.headSha

\* two submissions that write their metadata to the same tracking comment
Writers == {1, 2}

\* no metadata writer besides the invocation itself
WritersIdle ==
  /\ writers = [w \in Writers |-> [pc |-> "idle", currentBody |-> <<>>,
                                   reviewId |-> 0]]
  /\ written = <<>>

\* githubApiCircuitBreaker = new CircuitBreaker(5, 30000, 60000)
failureThreshold == 5
timeoutMs == 30000
resetTimeoutMs == 60000

Callers == 1..MaxConcurrent

\* the breaker as constructed
BreakerInit ==
  /\ state = "closed"
  /\ failures = 0
  /\ lastFailureTime = 0
  /\ now = 0
  /\ executing = [c \in 1..MaxConcurrent |-> [running |-> FALSE, start |-> 0]]
  /\ stats = [calls |-> 0, invocations |-> 0, rejections |-> 0,
              consecutiveFailures |-> 0, probe |-> 0]

\* ---------------------------------------------------------- error recovery
\* number of words in the message of a thrown error
MaxWords == 2
\* number of items handed to withBatchErrorRecovery
MaxItems == 3
\* largest maxConcurrent option handed to withBatchErrorRecovery
MaxBatchConcurrent == 2

\* the patterns categorizeError looks for, per rule
RateLimitPatterns == {"rate limit", "rate_limit"}
NotFoundPatterns == {"not found", "404"}
AuthenticationPatterns == {"unauthorized", "401"}
PermissionPatterns == {"forbidden", "403"}
NetworkPatterns == {"network", "timeout", "connection", "econnreset"}
ServerErrorPatterns == {"server error", "500", "502", "503", "504"}
ValidationPatterns == {"invalid", "validation", "format"}

\* the patterns that read the same in upper and in lower case
Caseless == {"404", "401", "403", "500", "502", "503", "504"}

\* A message is the set of the patterns it contains ("boom" is text that
\* matches no rule), written in lower case or in upper case.
Words ==
  RateLimitPatterns \cup NotFoundPatterns \cup AuthenticationPatterns
    \cup PermissionPatterns \cup NetworkPatterns \cup ServerErrorPatterns
    \cup ValidationPatterns \cup {"boom"}

Messages ==
  [words : {W \in SUBSET Words : Cardinality(W) <= MaxWords},
   upper : BOOLEAN]

\* what an operation may throw: an Error with a message, or another value
ThrownValues == [isError : BOOLEAN, message : Messages]

\* String.prototype.toLowerCase
toLowerCase(message) == [message EXCEPT !.upper = FALSE]

\* String.prototype.includes, for a lower-case pattern
includes(message, pattern) ==
  /\ pattern \in message.words
  /\ message.upper => pattern \in Caseless

IncludesAny(message, patterns) == \E p \in patterns : includes(message, p)

\* mutant of categorizeError: the permission rule is tried before the
\* authentication rule
categorizeError_PermissionFirst(error) ==
  IF ~error.isError THEN "unknown"
  ELSE LET message == toLowerCase(error.message) IN
    IF IncludesAny(message, RateLimitPatterns) THEN "rate_limit"
    ELSE IF IncludesAny(message, NotFoundPatterns) THEN "not_found"
    ELSE IF IncludesAny(message, PermissionPatterns) THEN "permission"
    ELSE IF IncludesAny(message, AuthenticationPatterns) THEN "authentication"
    ELSE IF IncludesAny(message, NetworkPatterns) THEN "network"
    ELSE IF IncludesAny(message, ServerErrorPatterns) THEN "server_error"
    ELSE IF IncludesAny(message, ValidationPatterns) THEN "validation"
    ELSE "unknown"

\* categorizeError
categorizeError(error) ==
  IF ~error.isError THEN "unknown"
  ELSE LET message == toLowerCase(error.message) IN
    IF IncludesAny(message, RateLimitPatterns) THEN "rate_limit"
    ELSE IF IncludesAny(message, NotFoundPatterns) THEN "not_found"
    ELSE IF IncludesAny(message, AuthenticationPatterns) THEN "authentication"
    ELSE IF IncludesAny(message, PermissionPatterns) THEN "permission"
    ELSE IF IncludesAny(message, NetworkPatterns) THEN "network"
    ELSE IF IncludesAny(message, ServerErrorPatterns) THEN "server_error"
    ELSE IF IncludesAny(message, ValidationPatterns) THEN "validation"
    ELSE "unknown"

\* mutant of getRecoveryConfig: validation errors are skipped
getRecoveryConfig_ValidationSkips(cat, isCritical) ==
  CASE cat = "rate_limit" -> [strategy |-> "retry", maxAttempts |-> 3]
    [] cat \in {"network", "server_error"} ->
         [strategy |-> "retry",
          maxAttempts |-> IF isCritical THEN 5 ELSE 2]
    [] cat \in {"authentication", "permission"} ->
         [strategy |-> "fail_fast", maxAttempts |-> 0]
    [] cat \in {"not_found", "validation"} ->
         [strategy |-> IF isCritical THEN "fail_fast" ELSE "skip",
          maxAttempts |-> 0]
    [] cat = "unknown" ->
         [strategy |-> IF isCritical THEN "retry" ELSE "skip",
          maxAttempts |-> 1]
    [] OTHER -> [strategy |-> "fail_fast", maxAttempts |-> 0]

\* getRecoveryConfig: the strategy and retryOptions.maxAttempts (0: none)
getRecoveryConfig(cat, isCritical) ==
  CASE cat = "rate_limit" -> [strategy |-> "retry", maxAttempts |-> 3]
    [] cat \in {"network", "server_error"} ->
         [strategy |-> "retry",
          maxAttempts |-> IF isCritical THEN 5 ELSE 2]
    [] cat \in {"authentication", "permission", "validation"} ->
         [strategy |-> "fail_fast", maxAttempts |-> 0]
    [] cat = "not_found" ->
         [strategy |-> IF isCritical THEN "fail_fast" ELSE "skip",
          maxAttempts |-> 0]
    [] cat = "unknown" ->
         [strategy |-> IF isCritical THEN "retry" ELSE "skip",
          maxAttempts |-> 1]
    [] OTHER -> [strategy |-> "fail_fast", maxAttempts |-> 0]

\* placeholder where no value was thrown
NoError == [isError |-> FALSE, message |-> [words |-> {}, upper |-> FALSE]]

NoConfig == [strategy |-> "none", maxAttempts |-> 0]

\* categorizeError was not called
CategorizeIdle ==
  /\ thrown = [error |-> NoError, isCritical |-> FALSE]
  /\ category = [category |-> "none", config |-> NoConfig]

\* the withErrorRecovery call of an item whose operation was not started
NoOutcome == [kind |-> "none", error |-> NoError]

PendingItem ==
  [pc |-> "pending", attempts |-> 0, backoffCalls |-> 0,
   firstError |-> NoError, outcome |-> NoOutcome]

\* withBatchErrorRecovery was not called
BatchIdle ==
  /\ batch = [maxConcurrent |-> 1, failOnAnyError |-> FALSE,
              isCritical |-> FALSE, throws |-> {}]
  /\ items = <<>>
  /\ results = <<>>
  /\ errors = <<>>
  /\ batchPc = [pc |-> "idle", i |-> 0, error |-> NoError,
                outOfOrder |-> FALSE]

\* MAX_THREADS, and the page size of the reviewThreads query
MAX_THREADS == 500
ThreadPageSize == 50

\* fetchAllReviewThreads was not called
FetchIdle ==
  fetch = [pc |-> "idle", threadCount |-> 0, hasNextPage |-> TRUE,
           allThreads |-> 0]

\* MAX_COMMENTS_PER_THREAD, and the page size of the comments queries
MAX_COMMENTS_PER_THREAD == 200
CommentPageSize == 100

NoFailure == [thread |-> 0, error |-> NoError, kind |-> "none"]

\* no thread page is being completed
PageIdle ==
  page = [pc |-> "idle", threads |-> 0, t |-> 0, nodes |-> 0,
          commentCount |-> 0, hasMoreComments |-> FALSE, brk |-> FALSE,
          failure |-> NoFailure]

\* formatGitHubDataThreadAware was not called
NoGithubData == [reviewComments |-> <<>>, comments |-> <<>>, prAuthor |-> ""]

NoThreadAnalysis ==
  [done |-> FALSE, threads |-> <<>>, validThreads |-> <<>>,
   outdatedThreads |-> <<>>, threadsToResolve |-> <<>>]

NoThreadActions ==
  [done |-> FALSE, threadsToResolve |-> <<>>, threadsToReplyTo |-> <<>>,
   newCommentsNeeded |-> FALSE]

PromptIdle ==
  /\ githubData = NoGithubData
  /\ threadAnalysis = NoThreadAnalysis
  /\ deduplicatedComments = [done |-> FALSE, list |-> <<>>]
  /\ threadActions = NoThreadActions

\* no metadata is being extracted and no thread is being resolved
ToolIdle ==
  /\ extraction = <<>>
  /\ resolve = [pc |-> "idle"]
  /\ bulk = [pc |-> "idle"]

UtilIdle ==
  /\ CategorizeIdle /\ BatchIdle /\ FetchIdle /\ PageIdle /\ PromptIdle
  /\ ToolIdle

Init ==
  /\ WritersIdle
  /\ BreakerInit
  /\ UtilIdle
  /\ githubToken \in BOOLEAN
  /\ claudeCommentId \in {"unset", "invalid", "valid"}
  /\ reviews \in InitialReviewLists
  /\ commentBody \in InitialCommentBodies \cup {<<>>}
  \* without a usable CLAUDE_COMMENT_ID there is no tracking comment to read,
  \* and without a token nothing remote is ever reached
  /\ claudeCommentId = "valid" <=> commentBody # <<>>
  /\ ~githubToken => reviews = <<>> /\ claudeCommentId = "unset"
  /\ pc = "idle"
  /\ input = [event |-> "COMMENT", body |-> <<>>, commit_id |-> ""]
  /\ local = InitLocal
  /\ result = NoResult
  /\ log = <<>>

\* mutant of RequiresBody: COMMENT is forgotten
RequiresBody_OnlyChanges(e) == e = "REQUEST_CHANGES"

\* the verdicts for which a non-empty sanitized body is required
RequiresBody(e) == e \in {"REQUEST_CHANGES", "COMMENT"}

\* entry of the handler up to the first remote call: token check, sanitization
\* and the required-body check
Invoke ==
  /\ pc = "idle"
  /\ \E e \in Events, b \in Bodies, c \in CommitIds :
       LET sb == sanitizeContent(b) IN
       /\ input' = [event |-> e, body |-> b, commit_id |-> c]
       /\ IF ~githubToken
            THEN /\ Throw("GITHUB_TOKEN environment variable is required")
                 /\ local' = local
            ELSE IF RequiresBody(e) /\ trim(sb) = <<>>
              THEN /\ Throw("A review body is required")
                   /\ local' = [local EXCEPT !.sanitizedBody = sb]
              ELSE /\ pc' = "pulls.get"
                   /\ result' = result
                   /\ local' = [local EXCEPT !.sanitizedBody = sb]
  /\ UNCHANGED <<writerVars, breakerVars, utilVars>>
  /\ UNCHANGED <<githubToken, claudeCommentId, reviews, commentBody, log>>

\* octokit.pulls.get
GetPullRequest ==
  /\ pc = "pulls.get"
  /\ \E ok \in BOOLEAN :
       /\ log' = Append(log, Call("pulls.get", 0, ok, <<>>))
       /\ IF ok
            THEN /\ pc' = "listReviews"
                 /\ result' = result
                 /\ local' = [local EXCEPT !.headSha = HeadSha]
            ELSE /\ Throw("Validation Failed")
                 /\ local' = [local EXCEPT !.errorMessage = "Validation Failed"]
  /\ UNCHANGED <<writerVars, breakerVars, utilVars>>
  /\ UNCHANGED <<githubToken, claudeCommentId, reviews, commentBody, input>>

\* the pre-flight getPendingReviews call and the branch on its result
PreflightListReviews ==
  /\ pc = "listReviews"
  /\ \E ok \in BOOLEAN :
       LET pendingReviews == IF ok THEN getPendingReviews(reviews) ELSE <<>> IN
       /\ log' = Append(log, Call("listReviews", 0, ok, <<>>))
       /\ IF Len(pendingReviews) > 0
            THEN /\ pc' = "submitReview"
                 /\ local' = [local EXCEPT !.pendingReview =
                                 [id |-> pendingReviews[1].id,
                                  body |-> pendingReviews[1].body]]
            ELSE /\ pc' = "createReview"
                 /\ local' = local
  /\ UNCHANGED <<writerVars, breakerVars, utilVars>>
  /\ UNCHANGED <<githubToken, claudeCommentId, reviews, commentBody, input,
                 result>>

\* handleExistingPendingReview, first half: submitReview with the merged body
PreflightSubmitPending ==
  /\ pc = "submitReview"
  /\ \E ok \in BOOLEAN :
       LET id == local.pendingReview.id
           b == mergedBody(local.pendingReview.body, local.sanitizedBody) IN
       /\ log' = Append(log, Call("submitReview", id, ok, b))
       /\ IF ok
            THEN /\ reviews' = SetStateBody(reviews, id,
                                             StateOfEvent(input.event), b)
                 /\ local' = [local EXCEPT !.reviewId = id]
                 /\ pc' = "getComment"
            ELSE /\ reviews' = reviews
                 /\ local' = local
                 /\ pc' = "dismissReview"
  /\ UNCHANGED <<writerVars, breakerVars, utilVars>>
  /\ UNCHANGED <<githubToken, claudeCommentId, commentBody, input, result>>

\* mutant of PreflightDismissPending: the handler's failure is raised even
\* when the dismissal succeeded
PreflightDismissPending_Throws ==
  /\ pc = "dismissReview"
  /\ \E ok \in BOOLEAN :
       LET id == local.pendingReview.id IN
       /\ log' = Append(log, Call("dismissReview", id, ok, <<>>))
       /\ reviews' = IF ok THEN SetState(reviews, id, "DISMISSED") ELSE reviews
       /\ Throw("Failed to handle existing pending review")
       /\ local' = [local EXCEPT !.errorMessage =
                       "Failed to handle existing pending review"]
  /\ UNCHANGED <<writerVars, breakerVars, utilVars>>
  /\ UNCHANGED <<githubToken, claudeCommentId, commentBody, input>>

\* handleExistingPendingReview, fallback: dismiss the pending review
PreflightDismissPending ==
  /\ pc = "dismissReview"
  /\ \E ok \in BOOLEAN :
       LET id == local.pendingReview.id IN
       /\ log' = Append(log, Call("dismissReview", id, ok, <<>>))
       /\ IF ok
            THEN /\ reviews' = SetState(reviews, id, "DISMISSED")
                 /\ pc' = "createReview"
                 /\ result' = result
                 /\ local' = local
            ELSE /\ reviews' = reviews
                 /\ Throw("Failed to handle existing pending review")
                 /\ local' = [local EXCEPT !.errorMessage =
                                 "Failed to handle existing pending review"]
  /\ UNCHANGED <<writerVars, breakerVars, utilVars>>
  /\ UNCHANGED <<githubToken, claudeCommentId, commentBody, input>>

\* octokit.rest.pulls.createReview
CreateReview ==
  /\ pc = "createReview"
  /\ \E outcome \in {"ok", ConflictMessage, "Validation Failed"} :
       LET id == Len(reviews) + 1 IN
       /\ log' = Append(log, Call("createReview", IF outcome = "ok" THEN id ELSE 0,
                                  outcome = "ok", local.sanitizedBody))
       /\ IF outcome = "ok"
            THEN /\ reviews' = Append(reviews,
                       [id |-> id, state |-> StateOfEvent(input.event),
                        user |-> BotUserId, body |-> local.sanitizedBody])
                 /\ local' = [local EXCEPT !.reviewId = id]
                 /\ pc' = "getComment"
                 /\ result' = result
            ELSE /\ reviews' = reviews
                 /\ local' = [local EXCEPT !.errorMessage = outcome]
                 /\ Throw(outcome)
  /\ UNCHANGED <<writerVars, breakerVars, utilVars>>
  /\ UNCHANGED <<githubToken, claudeCommentId, commentBody, input>>

\* mutant of AfterMetadata: earlier change requests are dismissed whatever
\* the verdict
AfterMetadata_AnyVerdict == pc' = "getAuthenticated" /\ result' = result

\* what follows addTrackingCommentMetadata in submit_pr_review: the dismissal
\* of earlier change requests for a COMMENT review, else the success payload
AfterMetadata ==
  IF input.event = "COMMENT"
    THEN pc' = "getAuthenticated" /\ result' = result
    ELSE pc' = "done" /\ result' = SuccessResult("submitted", local.reviewId)

\* addTrackingCommentMetadata, first half: the CLAUDE_COMMENT_ID checks and
\* issues.getComment
GetTrackingComment ==
  /\ pc = "getComment"
  /\ IF claudeCommentId # "valid"
       THEN /\ local' = [local EXCEPT !.metadata = "skipped"]
            /\ log' = log
            /\ AfterMetadata
       ELSE \E ok \in BOOLEAN :
            /\ log' = Append(log, Call("getComment", 0, ok, <<>>))
            /\ IF ok
                 THEN /\ local' = [local EXCEPT !.currentBody = commentBody]
                      /\ pc' = "updateComment"
                      /\ result' = result
                 ELSE /\ local' = [local EXCEPT !.metadata = "failed"]
                      /\ AfterMetadata
  /\ UNCHANGED <<writerVars, breakerVars, utilVars>>
  /\ UNCHANGED <<githubToken, claudeCommentId, reviews, commentBody, input>>

\* addTrackingCommentMetadata, second half: issues.updateComment
UpdateTrackingComment ==
  /\ pc = "updateComment"
  /\ \E ok \in BOOLEAN :
       LET metadataComment ==
             generateMetadataComment(CommitSha, local.reviewId) IN
       /\ log' = Append(log, Call("updateComment", 0, ok, <<>>))
       /\ IF ok
            THEN /\ commentBody' = updatedBody(local.currentBody,
                                                metadataComment)
                 /\ local' = [local EXCEPT !.metadata = "written"]
            ELSE /\ commentBody' = commentBody
                 /\ local' = [local EXCEPT !.metadata = "failed"]
       /\ AfterMetadata
  /\ UNCHANGED <<writerVars, breakerVars, utilVars>>
  /\ UNCHANGED <<githubToken, claudeCommentId, reviews, input>>

\* mutant of DismissGetAuthenticated: the failure escapes to the outer catch
DismissGetAuthenticated_Throws ==
  /\ pc = "getAuthenticated"
  /\ \E ok \in BOOLEAN :
       /\ log' = Append(log, Call("getAuthenticated", 0, ok, <<>>))
       /\ IF ok
            THEN /\ pc' = "dismiss.listReviews"
                 /\ local' = local
                 /\ result' = result
            ELSE /\ local' = [local EXCEPT !.errors = <<-1>>]
                 /\ Throw("Validation Failed")
  /\ UNCHANGED <<writerVars, breakerVars, utilVars>>
  /\ UNCHANGED <<githubToken, claudeCommentId, reviews, commentBody, input>>

\* dismissPreviousChangeRequests: users.getAuthenticated (with retries)
DismissGetAuthenticated ==
  /\ pc = "getAuthenticated"
  /\ \E ok \in BOOLEAN :
       /\ log' = Append(log, Call("getAuthenticated", 0, ok, <<>>))
       /\ IF ok
            THEN /\ pc' = "dismiss.listReviews"
                 /\ local' = local
                 /\ result' = result
            ELSE /\ pc' = "done"
                 /\ local' = [local EXCEPT !.errors = <<-1>>]
                 /\ result' = SuccessResult("submitted", local.reviewId)
  /\ UNCHANGED <<writerVars, breakerVars, utilVars>>
  /\ UNCHANGED <<githubToken, claudeCommentId, reviews, commentBody, input>>

\* mutant of changeRequestReviews: the author of a review is not looked at
changeRequestReviews_AnyUser(list, botUserId) ==
  SelectSeq(list, LAMBDA r : r.state = "CHANGES_REQUESTED")

\* the filter of dismissPreviousChangeRequests
changeRequestReviews(list, botUserId) ==
  SelectSeq(list, LAMBDA r : r.state = "CHANGES_REQUESTED"
                              /\ r.user = botUserId)

\* dismissPreviousChangeRequests: pulls.listReviews (with retries), the filter
\* and the early return when nothing is to be dismissed
DismissListReviews ==
  /\ pc = "dismiss.listReviews"
  /\ \E ok \in BOOLEAN :
       LET found == changeRequestReviews(reviews, BotUserId) IN
       /\ log' = Append(log, Call("listReviews", 0, ok, <<>>))
       /\ IF ok /\ Len(found) > 0
            THEN /\ pc' = "dismiss.dismissReview"
                 /\ local' = [local EXCEPT
                                 !.targets =
                                   [i \in 1..Len(found) |-> found[i].id],
                                 !.found =
                                   [i \in 1..Len(found) |-> found[i].id]]
                 /\ result' = result
            ELSE /\ pc' = "done"
                 /\ local' = IF ok THEN [local EXCEPT !.success = TRUE]
                                    ELSE [local EXCEPT !.errors = <<-1>>]
                 /\ result' = SuccessResult("submitted", local.reviewId)
  /\ UNCHANGED <<writerVars, breakerVars, utilVars>>
  /\ UNCHANGED <<githubToken, claudeCommentId, reviews, commentBody, input>>

\* mutant of dismissalSuccess: one failed dismissal makes the run a failure
dismissalSuccess_NoError(dismissedCount, failed) == failed = <<>>

\* result.success = result.dismissedCount > 0 || result.errors.length === 0
dismissalSuccess(dismissedCount, failed) ==
  dismissedCount > 0 \/ failed = <<>>

\* dismissPreviousChangeRequests: one iteration of the dismissal loop, and
\* the verdict once the loop is over
DismissChangeRequest ==
  /\ pc = "dismiss.dismissReview"
  /\ \E ok \in BOOLEAN :
       LET id == Head(local.targets)
           rest == Tail(local.targets)
           after == IF ok
                      THEN [local EXCEPT !.targets = rest,
                              !.dismissedCount = @ + 1,
                              !.dismissedReviewIds = Append(@, id)]
                      ELSE [local EXCEPT !.targets = rest,
                              !.errors = Append(@, id)]
       IN
       /\ log' = Append(log, Call("dismissPrevious", id, ok, <<>>))
       /\ reviews' = IF ok THEN SetState(reviews, id, "DISMISSED") ELSE reviews
       /\ local' = IF rest = <<>>
                      THEN [after EXCEPT !.success =
                              dismissalSuccess(after.dismissedCount,
                                               after.errors)]
                      ELSE after
       /\ IF rest = <<>>
            THEN /\ pc' = "done"
                 /\ result' = SuccessResult("submitted", local.reviewId)
            ELSE /\ pc' = "dismiss.dismissReview"
                 /\ result' = result
  /\ UNCHANGED <<writerVars, breakerVars, utilVars>>
  /\ UNCHANGED <<githubToken, claudeCommentId, commentBody, input>>

\* conflict recovery: getPendingReviews is queried again
RecoveryListReviews ==
  /\ pc = "recovery.listReviews"
  /\ \E ok \in BOOLEAN :
       LET pendingReviews == IF ok THEN getPendingReviews(reviews) ELSE <<>> IN
       /\ log' = Append(log, Call("listReviews", 0, ok, <<>>))
       /\ IF Len(pendingReviews) > 0
            THEN /\ pc' = "recovery.submitReview"
                 /\ local' = [local EXCEPT !.pendingReview =
                                 [id |-> pendingReviews[1].id,
                                  body |-> pendingReviews[1].body]]
                 /\ result' = result
            ELSE /\ pc' = "done"
                 /\ local' = local
                 /\ result' = RecoveryFailedResult(local.errorMessage)
  /\ UNCHANGED <<writerVars, breakerVars, utilVars>>
  /\ UNCHANGED <<githubToken, claudeCommentId, reviews, commentBody, input>>

\* conflict recovery: handleExistingPendingReview, submitReview
RecoverySubmitPending ==
  /\ pc = "recovery.submitReview"
  /\ \E ok \in BOOLEAN :
       LET id == local.pendingReview.id
           b == mergedBody(local.pendingReview.body,
                           sanitizeContent(input.body)) IN
       /\ log' = Append(log, Call("submitReview", id, ok, b))
       /\ IF ok
            THEN /\ reviews' = SetStateBody(reviews, id,
                                             StateOfEvent(input.event), b)
                 /\ local' = [local EXCEPT !.reviewId = id]
                 /\ pc' = "done"
                 /\ result' = SuccessResult("recovered", id)
            ELSE /\ reviews' = reviews
                 /\ local' = local
                 /\ pc' = "recovery.dismissReview"
                 /\ result' = result
  /\ UNCHANGED <<writerVars, breakerVars, utilVars>>
  /\ UNCHANGED <<githubToken, claudeCommentId, commentBody, input>>

\* mutant of RecoveryDismissPending: after a successful dismissal the creation
\* is tried again
RecoveryDismissPending_Retry ==
  /\ pc = "recovery.dismissReview"
  /\ \E ok \in BOOLEAN :
       LET id == local.pendingReview.id IN
       /\ log' = Append(log, Call("dismissReview", id, ok, <<>>))
       /\ reviews' = IF ok THEN SetState(reviews, id, "DISMISSED") ELSE reviews
       /\ IF ok
            THEN pc' = "createReview" /\ result' = result
            ELSE pc' = "done"
                 /\ result' = RecoveryFailedResult(local.errorMessage)
  /\ UNCHANGED <<writerVars, breakerVars, utilVars>>
  /\ UNCHANGED <<githubToken, claudeCommentId, commentBody, input, local>>

\* conflict recovery: handleExistingPendingReview, dismissReview fallback;
\* whatever its outcome the recovery has failed
RecoveryDismissPending ==
  /\ pc = "recovery.dismissReview"
  /\ \E ok \in BOOLEAN :
       LET id == local.pendingReview.id IN
       /\ log' = Append(log, Call("dismissReview", id, ok, <<>>))
       /\ reviews' = IF ok THEN SetState(reviews, id, "DISMISSED") ELSE reviews
       /\ pc' = "done"
       /\ result' = RecoveryFailedResult(local.errorMessage)
  /\ UNCHANGED <<writerVars, breakerVars, utilVars>>
  /\ UNCHANGED <<githubToken, claudeCommentId, commentBody, input, local>>

Next ==
  \/ Invoke
  \/ GetPullRequest
  \/ PreflightListReviews
  \/ PreflightSubmitPending
  \/ PreflightDismissPending
  \/ CreateReview
  \/ GetTrackingComment
  \/ UpdateTrackingComment
  \/ DismissGetAuthenticated
  \/ DismissListReviews
  \/ DismissChangeRequest
  \/ RecoveryListReviews
  \/ RecoverySubmitPending
  \/ RecoveryDismissPending

Spec == Init /\ [][Next]_vars

\* ------------------------------------- concurrent addTrackingCommentMetadata
\* no submit_pr_review invocation is modelled step by step
SubmitIdle ==
  /\ githubToken = TRUE
  /\ claudeCommentId = "valid"
  /\ reviews = <<>>
  /\ pc = "idle"
  /\ input = [event |-> "COMMENT", body |-> <<>>, commit_id |-> ""]
  /\ local = InitLocal
  /\ result = NoResult
  /\ log = <<>>

InitMeta ==
  /\ SubmitIdle
  /\ BreakerInit
  /\ WritersIdle
  /\ UtilIdle
  /\ commentBody \in EditedCommentBodies

\* the commit each writer reviewed
ShaOf(w) == IF w = 1 THEN HeadSha ELSE "c0ffee1"

\* addTrackingCommentMetadata of writer w, first half: issues.getComment
ReadComment(w) ==
  /\ writers[w].pc = "idle"
  /\ writers[w].reviewId < MaxWrites
  /\ \E ok \in BOOLEAN :
       writers' = [writers EXCEPT ![w] =
                     [pc |-> IF ok THEN "updateComment" ELSE "idle",
                      currentBody |-> IF ok THEN commentBody ELSE <<>>,
                      reviewId |-> @.reviewId + 1]]
  /\ UNCHANGED <<commentBody, written>>

\* addTrackingCommentMetadata of writer w, second half: issues.updateComment
UpdateComment(w) ==
  /\ writers[w].pc = "updateComment"
  /\ \E ok \in BOOLEAN :
       LET metadataComment ==
             generateMetadataComment(ShaOf(w), writers[w].reviewId) IN
       /\ commentBody' = IF ok THEN updatedBody(writers[w].currentBody,
                                                metadataComment)
                               ELSE commentBody
       /\ written' = IF ok THEN Append(written, metadataComment) ELSE written
  /\ writers' = [writers EXCEPT ![w].pc = "idle", ![w].currentBody = <<>>]

WriterReads ==
  /\ \E w \in Writers : ReadComment(w)
  /\ UNCHANGED <<submitVars, breakerVars, utilVars>>

WriterUpdates ==
  /\ \E w \in Writers : UpdateComment(w)
  /\ UNCHANGED <<submitVars, breakerVars, utilVars>>

NextMeta == WriterReads \/ WriterUpdates

SpecMeta == InitMeta /\ [][NextMeta]_vars

\* ---------------------------------------------------------- CircuitBreaker
InitBreaker ==
  /\ SubmitIdle
  /\ WritersIdle
  /\ UtilIdle
  /\ commentBody = <<>>
  /\ BreakerInit

\* CircuitBreaker.onSuccess
onSuccess ==
  /\ failures' = 0
  /\ state' = "closed"

\* mutant of onFailure: the breaker opens one failure late
onFailure_Late ==
  /\ failures' = failures + 1
  /\ lastFailureTime' = now
  /\ state' = IF failures + 1 > failureThreshold THEN "open" ELSE state

\* CircuitBreaker.onFailure
onFailure ==
  /\ failures' = failures + 1
  /\ lastFailureTime' = now
  /\ state' = IF failures + 1 >= failureThreshold THEN "open" ELSE state

\* CircuitBreaker.execute up to the await: the open check, then the operation
\* is invoked and raced against the timer
Execute(c) ==
  /\ ~executing[c].running
  /\ stats.calls < MaxCalls
  /\ IF state = "open" /\ now - lastFailureTime < resetTimeoutMs
       THEN /\ stats' = [stats EXCEPT !.calls = @ + 1, !.rejections = @ + 1]
            /\ UNCHANGED <<state, executing>>
       ELSE /\ state' = IF state = "open" THEN "half-open" ELSE state
            /\ executing' = [executing EXCEPT ![c] =
                                [running |-> TRUE, start |-> now]]
            /\ stats' = [stats EXCEPT !.calls = @ + 1, !.invocations = @ + 1,
                                      !.probe = IF state = "open" THEN c ELSE @]
  /\ UNCHANGED <<failures, lastFailureTime, now>>

\* the operation resolves before the timer fires
Resolve(c) ==
  /\ executing[c].running
  /\ now - executing[c].start <= timeoutMs
  /\ onSuccess
  /\ executing' = [executing EXCEPT ![c].running = FALSE]
  /\ stats' = [stats EXCEPT !.consecutiveFailures = 0,
                            !.probe = IF @ = c THEN 0 ELSE @]
  /\ UNCHANGED <<lastFailureTime, now>>

\* the operation rejects, or the timer fires first
Reject(c) ==
  /\ executing[c].running
  /\ onFailure
  /\ executing' = [executing EXCEPT ![c].running = FALSE]
  /\ stats' = [stats EXCEPT !.consecutiveFailures = @ + 1,
                            !.probe = IF @ = c THEN 0 ELSE @]
  /\ UNCHANGED now

ExecuteCall ==
  /\ \E c \in Callers : Execute(c)
  /\ UNCHANGED <<submitVars, commentBody, writerVars, utilVars>>

OperationResolves ==
  /\ \E c \in Callers : Resolve(c)
  /\ UNCHANGED <<submitVars, commentBody, writerVars, utilVars>>

OperationRejects ==
  /\ \E c \in Callers : Reject(c)
  /\ UNCHANGED <<submitVars, commentBody, writerVars, utilVars>>

\* time passes; a timer that is due fires before the clock moves on
Tick ==
  /\ now < MaxTicks * TickMs
  /\ \A c \in Callers :
       executing[c].running => now - executing[c].start < timeoutMs
  /\ now' = now + TickMs
  /\ UNCHANGED <<state, failures, lastFailureTime, executing, stats>>
  /\ UNCHANGED <<submitVars, commentBody, writerVars, utilVars>>

NextBreaker == ExecuteCall \/ OperationResolves \/ OperationRejects \/ Tick

SpecBreaker == InitBreaker /\ [][NextBreaker]_vars

\* ------------------------------------------------------------ categorizeError
OthersIdle ==
  /\ SubmitIdle
  /\ WritersIdle
  /\ commentBody = <<>>

InitCategorize ==
  /\ OthersIdle
  /\ PageIdle
  /\ PromptIdle
  /\ ToolIdle
  /\ BreakerInit
  /\ BatchIdle
  /\ FetchIdle
  /\ thrown \in [error : ThrownValues, isCritical : BOOLEAN]
  /\ category = [category |-> "none", config |-> NoConfig]

\* the catch block of withErrorRecovery categorises what was thrown and
\* selects the plan
Categorize ==
  /\ category.category = "none"
  /\ category' =
       [category |-> categorizeError(thrown.error),
        config |-> getRecoveryConfig(categorizeError(thrown.error),
                                     thrown.isCritical)]
  /\ UNCHANGED <<submitVars, commentBody, writerVars, breakerVars, thrown,
                 batchVars, fetchVars, promptVars,
                 toolVars>>

NextCategorize == Categorize

SpecCategorize == InitCategorize /\ [][NextCategorize]_vars

\* ------------------------------ withErrorRecovery and withBatchErrorRecovery
Err(words, upper) ==
  [isError |-> TRUE, message |-> [words |-> words, upper |-> upper]]

\* what the wrapped operation throws when it fails: one error per category
\* and a value that is not an Error
OperationErrors ==
  {Err({"rate limit"}, FALSE), Err({"404", "not found"}, TRUE),
   Err({"401"}, FALSE), Err({"403", "forbidden"}, TRUE),
   Err({"timeout"}, FALSE), Err({"502"}, FALSE), Err({"invalid"}, FALSE),
   Err({"boom"}, FALSE),
   [isError |-> FALSE, message |-> [words |-> {"403"}, upper |-> FALSE]]}

Min(a, b) == IF a < b THEN a ELSE b

\* batch = items.slice(i, i + maxConcurrent), as indices from 1
Chunk(i) == (i + 1)..Min(i + batch.maxConcurrent, Len(items))

InFlight(it) == it.pc \in {"operation", "backoff"}

\* batch.map(...): every operation of the chunk is invoked
StartChunk(i) ==
  [k \in DOMAIN items |->
     IF k \in Chunk(i)
       THEN [items[k] EXCEPT !.pc = "operation", !.attempts = 1]
       ELSE items[k]]

\* the value operation(item) resolves to, and null
Value(k) == [null |-> FALSE, of |-> k]
Null == [null |-> TRUE, of |-> 0]

\* r.result of the wrapper of item k
ResultOf(k) == IF items[k].outcome.kind = "value" THEN Value(k) ELSE Null

\* mutant of ChunkResults: the results of a chunk are pushed in reverse
ChunkResults_Reversed(i) ==
  LET hi == Min(i + batch.maxConcurrent, Len(items)) IN
  [j \in 1..(hi - i) |-> ResultOf(hi + 1 - j)]

\* batchResults.map((r) => r.result), in the order of the chunk
ChunkResults(i) ==
  LET hi == Min(i + batch.maxConcurrent, Len(items)) IN
  [j \in 1..(hi - i) |-> ResultOf(i + j)]

\* mutant of ChunkSettled: one settled promise is enough
ChunkSettled_Any(i) == \E k \in Chunk(i) : items[k].pc = "settled"

\* Promise.all(batchPromises) has every promise settled
ChunkSettled(i) == \A k \in Chunk(i) : items[k].pc = "settled"

InitBatch ==
  /\ OthersIdle
  /\ PageIdle
  /\ PromptIdle
  /\ ToolIdle
  /\ BreakerInit
  /\ CategorizeIdle
  /\ FetchIdle
  /\ batch \in [maxConcurrent : 1..MaxBatchConcurrent,
                failOnAnyError : BOOLEAN, isCritical : BOOLEAN,
                throws : {{e} : e \in OperationErrors}]
  /\ \E n \in 0..MaxItems : items = [k \in 1..n |-> PendingItem]
  /\ results = <<>>
  /\ errors = <<>>
  /\ batchPc = [pc |-> "idle", i |-> 0, error |-> NoError,
                outOfOrder |-> FALSE]

\* withBatchErrorRecovery up to the first await
CallBatch ==
  /\ batchPc.pc = "idle"
  /\ IF Len(items) = 0
       THEN /\ batchPc' = [batchPc EXCEPT !.pc = "returned"]
            /\ UNCHANGED items
       ELSE /\ batchPc' = [batchPc EXCEPT !.pc = "awaiting"]
            /\ items' = StartChunk(0)
  /\ UNCHANGED <<batch, results, errors>>
  /\ UNCHANGED <<submitVars, commentBody, writerVars, breakerVars,
                 categorizeVars, fetchVars, promptVars,
                 toolVars>>

Outcome(kind, e) == [kind |-> kind, error |-> e]

\* withErrorRecovery of item k is over with the given outcome; the wrapper
\* of the item records what was raised and, under failOnAnyError, rejects,
\* which rejects Promise.all and with it the whole call
Settle(k, it, outcome) ==
  /\ items' = [items EXCEPT ![k] = [it EXCEPT !.pc = "settled",
                                             !.outcome = outcome]]
  /\ errors' = IF outcome.kind = "raise"
                 THEN Append(errors, [item |-> k, error |-> outcome.error])
                 ELSE errors
  /\ batchPc' =
       [batchPc EXCEPT
          !.pc = IF outcome.kind = "raise" /\ batch.failOnAnyError
                      /\ @ = "awaiting" THEN "rejected" ELSE @,
          !.error = IF outcome.kind = "raise" /\ batch.failOnAnyError
                         /\ batchPc.pc = "awaiting"
                      THEN outcome.error ELSE @,
          !.outOfOrder = @ \/ \E j \in 1..(k - 1) : InFlight(items[j])]

\* await operation() returns
ItemResolves(k) ==
  /\ items[k].pc = "operation"
  /\ Settle(k, items[k], Outcome("value", NoError))

\* case "skip", case "degrade": fallbackValue is never configured
AfterSkip(k, it) == Settle(k, it, Outcome("null", NoError))

\* await operation() throws: the catch block of withErrorRecovery
ItemRejects(k) ==
  /\ items[k].pc = "operation"
  /\ \E error \in batch.throws :
       LET config == getRecoveryConfig(categorizeError(error),
                                       batch.isCritical)
           it == [items[k] EXCEPT !.firstError = error]
       IN
       CASE config.strategy = "retry" ->
              \* retryWithBackoff makes its first attempt
              /\ items' = [items EXCEPT ![k] =
                             [it EXCEPT !.pc = "backoff",
                                        !.backoffCalls = @ + 1,
                                        !.attempts = @ + 1]]
              /\ UNCHANGED <<errors, batchPc>>
         [] config.strategy \in {"skip", "degrade"} -> AfterSkip(k, it)
         [] OTHER -> Settle(k, it, Outcome("raise", error))

\* retryWithBackoff(operation, {maxAttempts}) after an attempt has settled:
\* it resolves with the first success, waits and tries again while attempts
\* are left, and throws the last error when none is left
retryWithBackoff(attemptsMade, maxAttempts, ok) ==
  IF ok THEN "resolves"
  ELSE IF attemptsMade < maxAttempts THEN "again" ELSE "throws"

\* mutant of AfterRetryFailure: the failure is swallowed for critical
\* operations too
AfterRetryFailure_Swallow(isCritical, retryError) == Outcome("null", NoError)

\* catch (retryError): re-raised for a critical operation, null otherwise
AfterRetryFailure(isCritical, retryError) ==
  IF isCritical THEN Outcome("raise", retryError)
  ELSE Outcome("null", NoError)

\* mutant of RetrySettles: the plan is chosen again from the error of
\* the attempt that just failed
RetrySettles_Replan(k) ==
  /\ items[k].pc = "backoff"
  /\ \E ok \in BOOLEAN, error \in batch.throws :
       LET config == getRecoveryConfig(categorizeError(error),
                                       batch.isCritical)
           primitive == IF ok THEN "resolves"
                        ELSE IF config.strategy = "retry"
                                  /\ items[k].attempts - 1 < config.maxAttempts
                          THEN "again" ELSE "throws"
       IN
       CASE primitive = "resolves" ->
              Settle(k, items[k], Outcome("value", NoError))
         [] primitive = "again" ->
              /\ items' = [items EXCEPT ![k].attempts = @ + 1]
              /\ UNCHANGED <<errors, batchPc>>
         [] OTHER ->
              Settle(k, items[k], Outcome("raise", error))

\* an attempt made by retryWithBackoff settles
RetrySettles(k) ==
  /\ items[k].pc = "backoff"
  /\ \E ok \in BOOLEAN, error \in batch.throws :
       LET config == getRecoveryConfig(categorizeError(items[k].firstError),
                                       batch.isCritical)
           primitive == retryWithBackoff(items[k].attempts - 1,
                                         config.maxAttempts, ok)
       IN
       CASE primitive = "resolves" ->
              Settle(k, items[k], Outcome("value", NoError))
         [] primitive = "again" ->
              /\ items' = [items EXCEPT ![k].attempts = @ + 1]
              /\ UNCHANGED <<errors, batchPc>>
         [] OTHER ->
              Settle(k, items[k], AfterRetryFailure(batch.isCritical, error))

OperationSettles ==
  /\ \E k \in DOMAIN items : ItemResolves(k) \/ ItemRejects(k)
  /\ UNCHANGED <<batch, results>>
  /\ UNCHANGED <<submitVars, commentBody, writerVars, breakerVars,
                 categorizeVars, fetchVars, promptVars,
                 toolVars>>

RetryAttemptSettles ==
  /\ \E k \in DOMAIN items : RetrySettles(k)
  /\ UNCHANGED <<batch, results>>
  /\ UNCHANGED <<submitVars, commentBody, writerVars, breakerVars,
                 categorizeVars, fetchVars, promptVars,
                 toolVars>>

\* await Promise.all(batchPromises) resolves: the results of the chunk are
\* pushed and the loop starts the next chunk or the call returns
PromiseAllResolves ==
  /\ batchPc.pc = "awaiting"
  /\ ChunkSettled(batchPc.i)
  /\ results' = results \o ChunkResults(batchPc.i)
  /\ LET next == batchPc.i + batch.maxConcurrent IN
     IF next < Len(items)
       THEN /\ batchPc' = [batchPc EXCEPT !.i = next]
            /\ items' = StartChunk(next)
       ELSE /\ batchPc' = [batchPc EXCEPT !.i = next, !.pc = "returned"]
            /\ UNCHANGED items
  /\ UNCHANGED <<batch, errors>>
  /\ UNCHANGED <<submitVars, commentBody, writerVars, breakerVars,
                 categorizeVars, fetchVars, promptVars,
                 toolVars>>

NextBatch ==
  CallBatch \/ OperationSettles \/ RetryAttemptSettles \/ PromiseAllResolves

SpecBatch == InitBatch /\ [][NextBatch]_vars

\* one withErrorRecovery call, the operation failing with any error at
\* every attempt
InitRecovery ==
  /\ OthersIdle
  /\ PageIdle
  /\ PromptIdle
  /\ ToolIdle
  /\ BreakerInit
  /\ CategorizeIdle
  /\ FetchIdle
  /\ batch \in [maxConcurrent : {1}, failOnAnyError : BOOLEAN,
                isCritical : BOOLEAN, throws : {OperationErrors}]
  /\ items = <<PendingItem>>
  /\ results = <<>>
  /\ errors = <<>>
  /\ batchPc = [pc |-> "idle", i |-> 0, error |-> NoError,
                outOfOrder |-> FALSE]

SpecRecovery == InitRecovery /\ [][NextBatch]_vars

\* ------------------------------------------------------ fetchAllReviewThreads
\* the breaker as earlier calls may have left it
BreakerLeft ==
  /\ \/ state = "closed" /\ failures \in 0..(failureThreshold - 1)
     \/ state = "open" /\ failures = failureThreshold
  /\ lastFailureTime = 0
  /\ now = 0
  /\ executing = [c \in 1..MaxConcurrent |-> [running |-> FALSE, start |-> 0]]
  /\ stats = [calls |-> 0, invocations |-> 0, rejections |-> 0,
              consecutiveFailures |-> 0, probe |-> 0]

InitFetch ==
  /\ OthersIdle
  /\ PageIdle
  /\ PromptIdle
  /\ ToolIdle
  /\ BreakerLeft
  /\ CategorizeIdle
  /\ BatchIdle
  /\ FetchIdle

\* fetchAllReviewThreads up to the loop
CallFetch ==
  /\ fetch.pc = "idle"
  /\ fetch' = [pc |-> "loop", threadCount |-> 0, hasNextPage |-> TRUE,
               allThreads |-> 0]
  /\ UNCHANGED <<submitVars, commentBody, writerVars, breakerVars,
                 categorizeVars, batchVars, page, promptVars,
                 toolVars>>

\* one iteration of the thread loop: the page is fetched through
\* githubApiCircuitBreaker.execute, the comments of its threads are completed
\* (which may raise), and the page is pushed onto allThreads
FetchThreadPage ==
  /\ fetch.pc = "loop"
  /\ fetch.hasNextPage /\ fetch.threadCount < MAX_THREADS
  /\ IF state = "open" /\ now - lastFailureTime < resetTimeoutMs
       THEN /\ fetch' = [fetch EXCEPT !.pc = "threw"]
            /\ UNCHANGED <<state, failures, lastFailureTime>>
       ELSE \E ok \in BOOLEAN :
              IF ok
                THEN /\ onSuccess
                     /\ UNCHANGED lastFailureTime
                     /\ \E threads \in 0..ThreadPageSize,
                           hasNextPage \in BOOLEAN, commentsRaise \in BOOLEAN :
                          fetch' =
                            IF commentsRaise
                              THEN [fetch EXCEPT !.pc = "commentsThrew"]
                              ELSE [fetch EXCEPT
                                      !.allThreads = @ + threads,
                                      !.threadCount = @ + threads,
                                      !.hasNextPage = hasNextPage]
                ELSE /\ onFailure
                     /\ fetch' = [fetch EXCEPT !.pc = "threw"]
  /\ UNCHANGED <<now, executing, stats>>
  /\ UNCHANGED <<submitVars, commentBody, writerVars, categorizeVars,
                 batchVars, page, promptVars,
                 toolVars>>

\* the loop condition fails: return allThreads
ReturnThreads ==
  /\ fetch.pc = "loop"
  /\ ~(fetch.hasNextPage /\ fetch.threadCount < MAX_THREADS)
  /\ fetch' = [fetch EXCEPT !.pc = "returned"]
  /\ UNCHANGED <<submitVars, commentBody, writerVars, breakerVars,
                 categorizeVars, batchVars, page, promptVars,
                 toolVars>>

NextFetch == CallFetch \/ FetchThreadPage \/ ReturnThreads \/ Tick

SpecFetch == InitFetch /\ [][NextFetch]_vars

\* ------------------------- fetchAllReviewThreads: the comments of one page
\* number of threads on the thread page
MaxPageThreads == 2
\* largest number of comments the remote puts on a further comment page
MaxCommentPage == 101

\* what a non-critical or critical withErrorRecovery call may end with once
\* the first attempt of the operation has failed with the given error
withErrorRecoveryOutcomes(error, isCritical) ==
  LET config == getRecoveryConfig(categorizeError(error), isCritical) IN
  CASE config.strategy = "retry" ->
         {"value", AfterRetryFailure(isCritical, error).kind}
    [] config.strategy \in {"skip", "degrade"} -> {"null"}
    [] OTHER -> {"raise"}

InitThreadComments ==
  /\ OthersIdle
  /\ BreakerInit
  /\ CategorizeIdle
  /\ BatchIdle
  /\ FetchIdle
  /\ PageIdle
  /\ PromptIdle
  /\ ToolIdle

\* for (const thread of threads): the loop variables are set from the first
\* comment page, which came with the thread page
EnterThread(p, t, first, more) ==
  [p EXCEPT !.pc = "thread", !.t = t, !.nodes = first,
            !.commentCount = first, !.hasMoreComments = more, !.brk = FALSE]

\* the thread page arrives
ReceiveThreadPage ==
  /\ page.pc = "idle"
  /\ \E n \in 0..MaxPageThreads :
       IF n = 0
         THEN page' = [page EXCEPT !.pc = "pushed"]
         ELSE \E first \in 0..CommentPageSize, more \in BOOLEAN :
                page' = EnterThread([page EXCEPT !.threads = n], 1, first,
                                    more)
  /\ UNCHANGED <<submitVars, commentBody, writerVars, breakerVars,
                 categorizeVars, batchVars, fetch, promptVars,
                 toolVars>>

\* mutant of commentsToAdd: the new page is appended whole
commentsToAdd_All(newComments, remainingSpace) == newComments

\* newComments.slice(0, remainingSpace).length
commentsToAdd(newComments, remainingSpace) ==
  Min(newComments, remainingSpace)

\* mutant of AfterNullResult: the comments of the thread are dropped
AfterNullResult_Drop(p) == [p EXCEPT !.brk = TRUE, !.nodes = 0]

\* if (!commentResult) break
AfterNullResult(p) == [p EXCEPT !.brk = TRUE]

\* the condition of the comment loop
MoreCommentsWanted(p) ==
  p.hasMoreComments /\ p.commentCount < MAX_COMMENTS_PER_THREAD /\ ~p.brk

\* how the withErrorRecovery call around a comment query may end: with the
\* page (at once or after retries), with null, or by raising the error
CommentFetchOutcomes ==
  {[error |-> NoError, kind |-> "value"]}
    \cup UNION {{[error |-> error, kind |-> kind] :
                   kind \in withErrorRecoveryOutcomes(error, FALSE)
                              \ {"value"}} :
                error \in OperationErrors}

\* one iteration of the comment loop: the next comment page is fetched
\* through withErrorRecovery as a non-critical operation
FetchCommentPage ==
  /\ page.pc = "thread"
  /\ MoreCommentsWanted(page)
  /\ \E outcome \in CommentFetchOutcomes :
       LET failed == [page EXCEPT !.failure =
                        [thread |-> page.t, error |-> outcome.error,
                         kind |-> outcome.kind]]
       IN
       CASE outcome.kind = "value" ->
              \E newComments \in 0..MaxCommentPage, more \in BOOLEAN :
                LET added == commentsToAdd(newComments,
                               MAX_COMMENTS_PER_THREAD - page.commentCount)
                IN page' = [page EXCEPT !.nodes = @ + added,
                                        !.commentCount = @ + added,
                                        !.hasMoreComments = more]
         [] outcome.kind = "null" -> page' = AfterNullResult(failed)
         [] OTHER -> page' = [failed EXCEPT !.pc = "threw"]
  /\ UNCHANGED <<submitVars, commentBody, writerVars, breakerVars,
                 categorizeVars, batchVars, fetch, promptVars,
                 toolVars>>

\* the comment loop of a thread is over: the next thread is entered, or the
\* page is pushed onto allThreads
NextThread ==
  /\ page.pc = "thread"
  /\ ~MoreCommentsWanted(page)
  /\ IF page.t < page.threads
       THEN \E first \in 0..CommentPageSize, more \in BOOLEAN :
              page' = EnterThread(page, page.t + 1, first, more)
       ELSE page' = [page EXCEPT !.pc = "pushed"]
  /\ UNCHANGED <<submitVars, commentBody, writerVars, breakerVars,
                 categorizeVars, batchVars, fetch, promptVars,
                 toolVars>>

NextThreadComments == ReceiveThreadPage \/ FetchCommentPage \/ NextThread

SpecThreadComments == InitThreadComments /\ [][NextThreadComments]_vars

\* ----------------------------------------- dismissPreviousChangeRequests
\* a review the remote lists without a user
NoUserId == 0

\* the reviews of the pull request before the COMMENT review was recorded
DismissReviewShapes ==
  [state : {"CHANGES_REQUESTED", "APPROVED", "COMMENTED", "DISMISSED"},
   user : {BotUserId, OtherUserId, NoUserId}, body : {<<"a">>}]

\* submit_pr_review has recorded a COMMENT review with the body "a", found
\* no usable tracking comment, and calls dismissPreviousChangeRequests
InitDismiss ==
  /\ WritersIdle
  /\ BreakerInit
  /\ UtilIdle
  /\ githubToken = TRUE
  /\ claudeCommentId = "invalid"
  /\ commentBody = <<>>
  /\ input = [event |-> "COMMENT", body |-> <<"a">>, commit_id |-> ""]
  /\ pc = "getAuthenticated"
  /\ \E n \in 0..MaxReviews : \E l \in [1..n -> DismissReviewShapes] :
       /\ reviews =
            [i \in 1..n |-> [id |-> i, state |-> l[i].state,
                             user |-> l[i].user, body |-> l[i].body]]
              \o <<[id |-> n + 1, state |-> "COMMENTED", user |-> BotUserId,
                    body |-> <<"a">>]>>
       /\ local = [InitLocal EXCEPT !.sanitizedBody = <<"a">>,
                                    !.headSha = "headsha",
                                    !.reviewId = n + 1,
                                    !.metadata = "skipped"]
       /\ log = <<Call("pulls.get", 0, TRUE, <<>>),
                  Call("listReviews", 0, TRUE, <<>>),
                  Call("createReview", n + 1, TRUE, <<"a">>)>>
  /\ result = NoResult

NextDismiss ==
  DismissGetAuthenticated \/ DismissListReviews \/ DismissChangeRequest

SpecDismiss == InitDismiss /\ [][NextDismiss]_vars

\* ------------------------------------------- pr-review-prompt.ts: threads
\* largest number of review comments in the fetched data
MaxReviewComments == 2
\* largest number of general comments in the fetched data
MaxGeneralComments == 1

PrAuthor == "author"

Reviewer == "reviewer"

\* the files of the pull request
ChangedFiles == {"src/a.ts", "src/b.ts"}

\* comment bodies: what the comment says, in the message model of the
\* error categorisation (the words it contains, upper or lower case)
Body(words, upper) == [words |-> words, upper |-> upper]

CommentBodies == {Body({"fixed"}, TRUE), Body({}, FALSE)}

\* review comments, flattened over the reviews: each carries the state of
\* the review it belongs to
ReviewComment(reviewState, databaseId, path, author, body, at, minimized) ==
  [reviewState |-> reviewState, databaseId |-> databaseId, path |-> path,
   line |-> 10, author |-> author, body |-> body, createdAt |-> at,
   isMinimized |-> minimized]

\* review comments that differ in what the thread analysis reads; the
\* database id of a comment is its position
ThreadShapes ==
  {ReviewComment(reviewState, 0, path, author, body, createdAt, FALSE) :
     reviewState \in {"APPROVED", "CHANGES_REQUESTED"},
     path \in ChangedFiles \cup {""},
     author \in {PrAuthor, Reviewer},
     body \in CommentBodies,
     createdAt \in 1..2}

Numbered(comments) ==
  [i \in DOMAIN comments |-> [comments[i] EXCEPT !.databaseId = i]]

\* the database ids of the fetched comments
DatabaseIds == {1, 2}

\* review comments that differ in what the deduplication reads
DedupeShapes ==
  {ReviewComment("COMMENTED", databaseId, path, Reviewer, Body({}, FALSE),
                 1, isMinimized) :
     databaseId \in DatabaseIds,
     path \in {"src/a.ts", ""},
     isMinimized \in BOOLEAN}

GeneralComments ==
  [databaseId : DatabaseIds, isMinimized : BOOLEAN]

\* the fetched data: review comments of a few threads, or general comments
\* and review comments with overlapping database ids
IsPromptInput(data) ==
  \/ \E n \in 0..MaxReviewComments : \E rc \in [1..n -> ThreadShapes] :
       data = [reviewComments |-> Numbered(rc), comments |-> <<>>,
               prAuthor |-> PrAuthor]
  \/ \E n \in 0..MaxReviewComments : \E rc \in [1..n -> DedupeShapes] :
       \E m \in 0..MaxGeneralComments : \E gc \in [1..m -> GeneralComments] :
         data = [reviewComments |-> rc, comments |-> gc,
                 prAuthor |-> PrAuthor]

\* `${comment.path}:${comment.line || "null"}`
threadKey(comment) == <<comment.path, comment.line>>

\* the keys of a Map, in insertion order: first occurrences
RECURSIVE FirstOccurrences(_)
FirstOccurrences(keys) ==
  IF keys = <<>> THEN <<>>
  ELSE LET front == FirstOccurrences(SubSeq(keys, 1, Len(keys) - 1))
           last == keys[Len(keys)]
       IN IF \E i \in DOMAIN front : front[i] = last
            THEN front ELSE Append(front, last)

Range(s) == {s[i] : i \in DOMAIN s}

\* [...comments].sort(by createdAt, newest first)[0]: the sort is stable,
\* so among the newest comments the first one pushed wins
lastComment(comments) ==
  LET newest == {i \in DOMAIN comments :
                   \A j \in DOMAIN comments :
                     comments[j].createdAt <= comments[i].createdAt}
  IN comments[CHOOSE i \in newest : \A j \in newest : i <= j]

ResolutionKeywords ==
  {"fixed", "addressed", "updated", "changed", "done", "thanks",
   "good point", "you're right", "agreed", "implemented"}

\* one reconstructed thread, analysed
analyzeThread(key, reviewComments, prAuthor) ==
  LET comments == SelectSeq(reviewComments, LAMBDA c : threadKey(c) = key)
      reviewStates == {c.reviewState : c \in Range(comments)}
      file == key[1]
      lastCommenter == lastComment(comments).author
      lastCommentByAuthor == lastCommenter = prAuthor
      authorResponseContainsResolution ==
        /\ prAuthor # ""
        /\ \E c \in Range(comments) :
             /\ c.author = prAuthor
             /\ IncludesAny(toLowerCase(c.body), ResolutionKeywords)
  IN [threadId |-> key,
      isResolved |-> /\ "APPROVED" \in reviewStates
                     /\ "CHANGES_REQUESTED" \notin reviewStates,
      file |-> file,
      isRelevant |-> file \in ChangedFiles \/ file # "",
      lastCommenter |-> lastCommenter,
      prAuthorResponded |-> /\ prAuthor # ""
                            /\ \E c \in Range(comments) : c.author = prAuthor,
      readyForResolution |->
        lastCommentByAuthor \/ authorResponseContainsResolution,
      comments |-> comments]

\* the closing message proposed for a thread that is ready for resolution
suggestedMessage(t, prAuthor) ==
  IF t.lastCommenter = prAuthor /\ Len(t.comments) > 0
    THEN LET body == toLowerCase(lastComment(t.comments).body) IN
         CASE IncludesAny(body, {"fixed", "addressed"}) ->
                "Thanks for addressing this feedback!"
           [] IncludesAny(body, {"updated", "changed"}) ->
                "Resolved - changes implemented as requested"
           [] IncludesAny(body, {"done", "implemented"}) ->
                "Perfect, thanks for implementing this!"
           [] IncludesAny(body, {"thanks", "good point"}) ->
                "Glad this was helpful - resolved"
           [] OTHER -> "Thanks for the response - marking as resolved"
    ELSE "Thread resolved"

Map(f(_), s) == [i \in DOMAIN s |-> f(s[i])]

analyzeExistingThreads(data) ==
  LET keys == FirstOccurrences(Map(threadKey, data.reviewComments))
      threads == [i \in DOMAIN keys |->
                    analyzeThread(keys[i], data.reviewComments,
                                  data.prAuthor)]
      validThreads ==
        SelectSeq(threads, LAMBDA t : ~t.isResolved /\ t.isRelevant)
      outdated == SelectSeq(threads, LAMBDA t : ~t.isRelevant)
      ready == SelectSeq(validThreads, LAMBDA t : t.readyForResolution)
  IN [done |-> TRUE,
      threads |-> threads,
      validThreads |-> validThreads,
      outdatedThreads |-> [i \in DOMAIN outdated |->
                             [threadId |-> outdated[i].threadId]],
      threadsToResolve |->
        [i \in DOMAIN ready |->
           [threadId |-> ready[i].threadId,
            suggestedMessage |->
              suggestedMessage(ready[i], data.prAuthor)]]]

\* ------------------------------------- pr-review-prompt.ts: deduplication
\* a comment the mapping has no thread for
NoThreadId == <<"", 0>>

NoFile == "undefined"

\* buildThreadCommentMapping, read at one database id: comments without a
\* path are skipped, the id of a thread is made of the database id of its
\* first comment, and a later comment with the same database id overwrites
\* the entry
threadCommentMap(reviewComments, databaseId) ==
  LET mapped == SelectSeq(reviewComments, LAMBDA c : c.path # "")
      mine == {i \in DOMAIN mapped : mapped[i].databaseId = databaseId}
  IN IF mine = {} THEN NoThreadId
     ELSE LET key == threadKey(mapped[CHOOSE i \in mine :
                                        \A j \in mine : j <= i])
              first == CHOOSE i \in DOMAIN mapped :
                         /\ threadKey(mapped[i]) = key
                         /\ \A j \in DOMAIN mapped :
                              threadKey(mapped[j]) = key => i <= j
          IN <<"thread", mapped[first].databaseId>>

Has(commentMap, databaseId) ==
  \E i \in DOMAIN commentMap : commentMap[i].databaseId = databaseId

\* the general comments enter the map first, without file and line
RECURSIVE generalEntries(_, _)
generalEntries(comments, reviewComments) ==
  IF comments = <<>> THEN <<>>
  ELSE LET front == generalEntries(SubSeq(comments, 1, Len(comments) - 1),
                                   reviewComments)
           comment == comments[Len(comments)]
       IN IF ~comment.isMinimized /\ ~Has(front, comment.databaseId)
            THEN Append(front,
                   [databaseId |-> comment.databaseId, file |-> NoFile,
                    line |-> 0,
                    threadId |-> threadCommentMap(reviewComments,
                                                  comment.databaseId),
                    isReviewComment |-> FALSE])
            ELSE front

\* the review comments enter the map unless their id is present
RECURSIVE reviewEntries(_, _, _)
reviewEntries(commentMap, todo, reviewComments) ==
  IF todo = <<>> THEN commentMap
  ELSE LET comment == Head(todo)
           entry == [databaseId |-> comment.databaseId,
                     file |-> comment.path, line |-> comment.line,
                     threadId |-> threadCommentMap(reviewComments,
                                                   comment.databaseId),
                     isReviewComment |-> TRUE]
           next ==
             IF comment.isMinimized
                  \/ Has(commentMap, comment.databaseId)
               THEN commentMap
               ELSE Append(commentMap, entry)
       IN reviewEntries(next, Tail(todo), reviewComments)

getDeduplicatedComments(data, analysis) ==
  LET commentMap ==
        reviewEntries(generalEntries(data.comments, data.reviewComments),
                      data.reviewComments, data.reviewComments)
      outdatedThreadIds ==
        {analysis.outdatedThreads[i].threadId :
           i \in DOMAIN analysis.outdatedThreads}
  IN [done |-> TRUE,
      list |-> SelectSeq(commentMap,
                 LAMBDA comment :
                   \/ comment.threadId = NoThreadId
                   \/ comment.threadId \notin outdatedThreadIds)]

\* ------------------------------------------ pr-review-prompt.ts: planning
\* mutant of needsReply: every valid thread is replied to
needsReply_Always(thread) == TRUE

\* the filter of threadsToReplyTo
needsReply(thread) ==
  ~thread.isResolved /\ thread.isRelevant /\ ~thread.readyForResolution

planThreadActions(analysis, cleanComments) ==
  LET toReply == SelectSeq(analysis.validThreads, needsReply) IN
  [done |-> TRUE,
   threadsToResolve |->
     [i \in DOMAIN analysis.outdatedThreads |->
        [threadId |-> analysis.outdatedThreads[i].threadId,
         suggestedMessage |->
           "No longer relevant - resolving outdated thread"]]
       \o analysis.threadsToResolve,
   threadsToReplyTo |->
     [i \in DOMAIN toReply |-> [threadId |-> toReply[i].threadId]],
   newCommentsNeeded |-> Len(cleanComments) > 0]

\* formatGitHubDataThreadAware is called with fetched data
InitPrompt ==
  /\ OthersIdle
  /\ BreakerInit
  /\ CategorizeIdle
  /\ BatchIdle
  /\ FetchIdle
  /\ PageIdle
  /\ IsPromptInput(githubData)
  /\ threadAnalysis = NoThreadAnalysis
  /\ deduplicatedComments = [done |-> FALSE, list |-> <<>>]
  /\ threadActions = NoThreadActions
  /\ ToolIdle

\* phase 1
Analyze ==
  /\ githubData # NoGithubData
  /\ ~threadAnalysis.done
  /\ threadAnalysis' = analyzeExistingThreads(githubData)
  /\ UNCHANGED <<submitVars, commentBody, writerVars, breakerVars,
                 categorizeVars, batchVars, fetchVars, githubData,
                 deduplicatedComments, threadActions, toolVars>>

\* phase 2
Dedupe ==
  /\ threadAnalysis.done
  /\ ~deduplicatedComments.done
  /\ deduplicatedComments' =
       getDeduplicatedComments(githubData, threadAnalysis)
  /\ UNCHANGED <<submitVars, commentBody, writerVars, breakerVars,
                 categorizeVars, batchVars, fetchVars, githubData,
                 threadAnalysis, threadActions, toolVars>>

\* phase 3
PlanActions ==
  /\ deduplicatedComments.done
  /\ ~threadActions.done
  /\ threadActions' =
       planThreadActions(threadAnalysis, deduplicatedComments.list)
  /\ UNCHANGED <<submitVars, commentBody, writerVars, breakerVars,
                 categorizeVars, batchVars, fetchVars, githubData,
                 threadAnalysis, deduplicatedComments, toolVars>>

NextPrompt == Analyze \/ Dedupe \/ PlanActions

SpecPrompt == InitPrompt /\ [][NextPrompt]_vars

\* ------------------------------------------- reviews.ts: review metadata
\* longest chain of extractions and generations that is followed
MaxChain == 5

\* a commit hash is modelled by the alphabet of its characters and its length
Sha(alphabet, length) == [alphabet |-> alphabet, length |-> length]

\* the field is not in the object
NoSha == Sha("undefined", 0)

Shas ==
  {NoSha, Sha("lower", 0), Sha("lower", 6), Sha("lower", 7),
   Sha("lower", 40), Sha("lower", 41), Sha("upper", 7), Sha("other", 7)}

\* /^[a-f0-9]{7,40}$/i.test(sha)
shaPattern(sha) ==
  sha.alphabet \in {"lower", "upper"} /\ sha.length \in 7..40

ReviewDate == "2023-12-01T10:00:00Z"

Dates == {"undefined", "", ReviewDate, "not-a-date"}

\* isNaN(new Date(date).getTime())
isNaNDate(date) == date # ReviewDate

\* a review id that holds the end of a marker: "}" followed by "-->"
ClosingReviewId == "1} -->"

ReviewIds == {"undefined", "R_123", ClosingReviewId}

\* the JSON text of a marker: malformed, or an object with these members
Json(wellFormed, sha, date, reviewId) ==
  [wellFormed |-> wellFormed, lastReviewedSha |-> sha, reviewDate |-> date,
   reviewId |-> reviewId]

Malformed == Json(FALSE, NoSha, "undefined", "undefined")

JsonTexts ==
  {Malformed}
    \cup {Json(TRUE, sha, date, reviewId) :
            sha \in Shas, date \in Dates, reviewId \in ReviewIds}

\* <!-- pr-review-metadata-v1: {...} -->, compact or with more white space
MetadataMarker(compact, json) ==
  [kind |-> "marker", compact |-> compact, json |-> json]

Prose == [kind |-> "text"]

\* ReviewMetadata, and the null that extractReviewMetadata returns
Metadata(sha, date, reviewId) ==
  [lastReviewedSha |-> sha, reviewDate |-> date, reviewId |-> reviewId]

NullMetadata == Metadata(NoSha, "null", "null")

\* JSON.stringify(metadata): an undefined member is left out
JSONstringify(metadata) ==
  Json(TRUE, metadata.lastReviewedSha, metadata.reviewDate,
       metadata.reviewId)

\* generateMetadataComment(metadata), as text
generateMetadataText(metadata) ==
  <<MetadataMarker(TRUE, JSONstringify(metadata))>>

\* match[1] of /<!--\s*pr-review-metadata-v1:\s*({.*?})\s*-->/s: the lazy
\* group ends at the first "}" that is followed by "-->", also inside a
\* string of the JSON text
captured(json) ==
  IF json.wellFormed /\ json.reviewId = ClosingReviewId
    THEN Malformed ELSE json

extractReviewMetadata(text) ==
  IF text = <<>> \/ ~HasMarker(text) THEN NullMetadata
  ELSE LET parsed == captured(text[FirstMarker(text)].json)
       IN CASE ~parsed.wellFormed -> NullMetadata
            [] parsed.lastReviewedSha.length = 0
                 \/ parsed.reviewDate \in {"undefined", ""} -> NullMetadata
            [] ~shaPattern(parsed.lastReviewedSha) -> NullMetadata
            [] isNaNDate(parsed.reviewDate) -> NullMetadata
            [] OTHER -> Metadata(parsed.lastReviewedSha, parsed.reviewDate,
                                 parsed.reviewId)

\* the links of a chain: a text, a record, or null
TextLink(body) == [kind |-> "text", body |-> body, m |-> NullMetadata]

RecordLink(m) ==
  [kind |-> IF m = NullMetadata THEN "null" ELSE "record", body |-> <<>>,
   m |-> m]

\* texts without a marker and texts with one marker
CommentTexts ==
  {<<>>, <<Prose>>}
    \cup {(IF before THEN <<Prose>> ELSE <<>>)
            \o <<MetadataMarker(compact, json)>>
            \o (IF after THEN <<Prose>> ELSE <<>>) :
          before \in BOOLEAN, compact \in BOOLEAN, json \in JsonTexts,
          after \in BOOLEAN}

\* records with an accepted SHA, a date that parses and any review id
ValidMetadata ==
  {Metadata(sha, ReviewDate, reviewId) :
     sha \in {s \in Shas : shaPattern(s)}, reviewId \in ReviewIds}

\* largest number of comments handed to findLastTrackingComment
MaxTrackingComments == 2

claudeUsername == "claude-code"

\* the logins of comment authors: the assistant, an app whose login holds
\* "claude", and another user
Logins == {claudeUsername, "my-claude-app", "alice"}

TrackingMarker ==
  MetadataMarker(TRUE, Json(TRUE, Sha("lower", 7), ReviewDate, "undefined"))

\* GitHubComment: saysClaude stands for "Claude" occurring in the body
TrackingComments ==
  [login : Logins, saysClaude : BOOLEAN,
   body : {<<Prose>>, <<Prose, TrackingMarker>>}, createdAt : 1..2]

\* the filter of findLastTrackingComment
isClaudeComment(comment, username) ==
  \/ comment.login = username
  \/ comment.login \in {claudeUsername, "my-claude-app"}
  \/ comment.saysClaude

\* findLastTrackingComment: the position of the comment that is returned,
\* 0 for null.  The candidates are sorted newest first by a stable sort and
\* the first one with valid metadata wins.
findLastTrackingComment(comments, username) ==
  LET claudeComments ==
        {i \in DOMAIN comments :
           /\ isClaudeComment(comments[i], username)
           /\ extractReviewMetadata(comments[i].body) # NullMetadata}
      newest ==
        {i \in claudeComments :
           \A j \in claudeComments :
             comments[j].createdAt <= comments[i].createdAt}
  IN IF claudeComments = {} THEN 0
     ELSE CHOOSE i \in newest : \A j \in newest : i <= j

CommentsLink(comments) ==
  [kind |-> "comments", body |-> comments, m |-> NullMetadata]

FoundLink(comments, i) ==
  [kind |-> "found", body |-> <<i>>,
   m |-> IF i = 0 THEN NullMetadata
                  ELSE extractReviewMetadata(comments[i].body)]

\* a chain starts from a comment text, from a metadata record, or from the
\* comments of a pull request
InitExtraction ==
  /\ OthersIdle
  /\ BreakerInit
  /\ CategorizeIdle
  /\ BatchIdle
  /\ FetchIdle
  /\ PageIdle
  /\ PromptIdle
  /\ resolve = [pc |-> "idle"]
  /\ bulk = [pc |-> "idle"]
  /\ \/ \E body \in CommentTexts : extraction = <<TextLink(body)>>
     \/ \E m \in ValidMetadata : extraction = <<RecordLink(m)>>
     \/ \E n \in 0..MaxTrackingComments :
          \E comments \in [1..n -> TrackingComments] :
            extraction = <<CommentsLink(comments)>>

Last(s) == s[Len(s)]

ExtractMetadata ==
  /\ extraction # <<>>
  /\ Len(extraction) < MaxChain
  /\ Last(extraction).kind = "text"
  /\ extraction' =
       Append(extraction,
              RecordLink(extractReviewMetadata(Last(extraction).body)))
  /\ UNCHANGED <<submitVars, commentBody, writerVars, breakerVars,
                 categorizeVars, batchVars, fetchVars, promptVars, resolve,
                 bulk>>

GenerateMetadata ==
  /\ extraction # <<>>
  /\ Len(extraction) < MaxChain
  /\ Last(extraction).kind = "record"
  /\ extraction' =
       Append(extraction, TextLink(generateMetadataText(Last(extraction).m)))
  /\ UNCHANGED <<submitVars, commentBody, writerVars, breakerVars,
                 categorizeVars, batchVars, fetchVars, promptVars, resolve,
                 bulk>>

FindLastTrackingComment ==
  /\ Len(extraction) = 1
  /\ extraction[1].kind = "comments"
  /\ extraction' =
       Append(extraction,
              FoundLink(extraction[1].body,
                        findLastTrackingComment(extraction[1].body,
                                                claudeUsername)))
  /\ UNCHANGED <<submitVars, commentBody, writerVars, breakerVars,
                 categorizeVars, batchVars, fetchVars, promptVars, resolve,
                 bulk>>

NextExtraction ==
  ExtractMetadata \/ GenerateMetadata \/ FindLastTrackingComment

SpecExtraction == InitExtraction /\ [][NextExtraction]_vars

\* ------------------------------------- sanitization.ts: thread id validation
\* A thread id is described by what the validation reads: the prefix it
\* starts with, whether all its characters are in [A-Za-z0-9_+-/] and "="
\* padding ("node") or not ("other"), and its length.
ThreadIdText(prefix, alphabet, length) ==
  [prefix |-> prefix, alphabet |-> alphabet, length |-> length]

\* the ids a caller passes to the thread tools
ThreadIdTexts ==
  {ThreadIdText("PRRT_", "node", 20), ThreadIdText("RT_", "node", 12),
   ThreadIdText("PRRC_", "node", 20), ThreadIdText("IC_", "node", 20),
   ThreadIdText("none", "node", 20), ThreadIdText("PRRT_", "other", 20),
   ThreadIdText("PRRT_", "node", 9), ThreadIdText("PRRT_", "node", 101),
   ThreadIdText("none", "node", 0)}

\* validateGitHubThreadId
validateGitHubThreadId(threadId) ==
  /\ threadId.length # 0
  /\ ~(threadId.length < 10 \/ threadId.length > 100)
  /\ threadId.alphabet = "node"

\* validateGitHubReviewThreadId: valid, and which error message otherwise
validateGitHubReviewThreadId(threadId) ==
  IF threadId.length = 0
    THEN [valid |-> FALSE, error |-> "required"]
  ELSE IF ~validateGitHubThreadId(threadId)
    THEN [valid |-> FALSE, error |-> "format"]
  ELSE IF threadId.prefix \in {"PRRT_", "RT_"}
    THEN [valid |-> TRUE, error |-> ""]
  ELSE IF threadId.prefix = "PRRC_"
    THEN [valid |-> FALSE, error |-> "PullRequestReviewComment"]
  ELSE IF threadId.prefix = "IC_"
    THEN [valid |-> FALSE, error |-> "IssueComment"]
  ELSE [valid |-> FALSE, error |-> "prefix"]

\* ------------------------------------------------------ resolve_review_thread
\* the optional body was not passed
NoBody == <<"undefined">>

\* body && body.trim()
hasComment(body) == body # NoBody /\ trim(body) # <<>>

\* what the status query answers: node is null, or a thread that is open
\* or resolved
Nodes == {"null", "open", "resolved"}

NoToolResult ==
  [kind |-> "none", success |-> FALSE, already_resolved |-> FALSE,
   comment_added |-> "absent"]

\* the payload of the outer catch block
ToolError ==
  [kind |-> "error", success |-> FALSE, already_resolved |-> FALSE,
   comment_added |-> "absent"]

ToolSuccess(alreadyResolved, commentAdded) ==
  [kind |-> "success", success |-> TRUE,
   already_resolved |-> alreadyResolved, comment_added |-> commentAdded]

InitResolve ==
  /\ OthersIdle
  /\ BreakerInit
  /\ CategorizeIdle
  /\ BatchIdle
  /\ FetchIdle
  /\ PageIdle
  /\ PromptIdle
  /\ extraction = <<>>
  /\ bulk = [pc |-> "idle"]
  /\ \E threadId \in ThreadIdTexts, body \in Bodies \cup {NoBody},
        token \in BOOLEAN :
       resolve = [pc |-> "called", threadId |-> threadId, body |-> body,
                  token |-> token, node |-> "none", calls |-> <<>>,
                  firstError |-> NoError, attempts |-> 0,
                  reply |-> "none", result |-> NoToolResult]

\* a throw anywhere in the try block ends in the outer catch block
Thrown(r) == [r EXCEPT !.pc = "returned", !.result = ToolError]

Issue(r, op) == [r EXCEPT !.pc = op, !.calls = Append(@, op)]

\* the handler up to its first await: validation, token, status query
ResolveInvoke ==
  /\ resolve.pc = "called"
  /\ resolve' =
       IF ~validateGitHubReviewThreadId(resolve.threadId).valid
         THEN Thrown(resolve)
       ELSE IF ~resolve.token THEN Thrown(resolve)
       ELSE Issue(resolve, "status")
  /\ UNCHANGED <<submitVars, commentBody, writerVars, breakerVars,
                 categorizeVars, batchVars, fetchVars, promptVars,
                 extraction, bulk>>

\* the status query answered: a missing node throws, a resolved thread gets
\* the optional reply only, an open thread the optional reply and then the
\* resolve mutation
AfterStatus(r, node) ==
  LET seen == [r EXCEPT !.node = node] IN
  IF node = "null" THEN Thrown(seen)
  ELSE IF hasComment(r.body) THEN Issue(seen, "reply")
  ELSE IF node = "resolved"
    THEN [seen EXCEPT !.pc = "returned",
                      !.result = ToolSuccess(TRUE, "absent")]
  ELSE Issue(seen, "resolve")

\* the first attempt of the status query settles, inside
\* withErrorRecovery(..., true)
StatusSettles ==
  /\ resolve.pc = "status"
  /\ resolve.attempts = 0
  /\ \/ \E node \in Nodes : resolve' = AfterStatus(resolve, node)
     \/ \E error \in OperationErrors :
          LET config == getRecoveryConfig(categorizeError(error), TRUE) IN
          resolve' =
            CASE config.strategy = "retry" ->
                   [Issue(resolve, "status") EXCEPT !.firstError = error,
                                                    !.attempts = 1]
              [] config.strategy \in {"skip", "degrade"} ->
                   \* threadStatus is null
                   Thrown(resolve)
              [] OTHER -> Thrown(resolve)
  /\ UNCHANGED <<submitVars, commentBody, writerVars, breakerVars,
                 categorizeVars, batchVars, fetchVars, promptVars,
                 extraction, bulk>>

\* an attempt of retryWithBackoff on the status query settles
StatusRetrySettles ==
  /\ resolve.pc = "status"
  /\ resolve.attempts > 0
  /\ \E ok \in BOOLEAN, error \in OperationErrors :
       LET config == getRecoveryConfig(categorizeError(resolve.firstError),
                                       TRUE)
           primitive == retryWithBackoff(resolve.attempts,
                                         config.maxAttempts, ok)
       IN
       CASE primitive = "resolves" ->
              \E node \in Nodes : resolve' = AfterStatus(resolve, node)
         [] primitive = "again" ->
              resolve' = [Issue(resolve, "status") EXCEPT !.attempts = @ + 1]
         [] OTHER ->
              \* the retry error is raised again; a null status would
              \* throw as well
              resolve' = Thrown(resolve)
  /\ UNCHANGED <<submitVars, commentBody, writerVars, breakerVars,
                 categorizeVars, batchVars, fetchVars, promptVars,
                 extraction, bulk>>

\* mutant of afterReply: a failed reply ends the call
afterReply_StopOnFailure(node, ok) ==
  IF node = "resolved" \/ ~ok THEN "returned" ELSE "resolve"

\* where the handler goes once the reply mutation has settled: a reply to
\* a resolved thread returns, a reply to an open thread is followed by the
\* resolve mutation whether it was accepted or not
afterReply(node, ok) ==
  IF node = "resolved" THEN "returned" ELSE "resolve"

\* the addPullRequestReviewThreadReply mutation settles
ReplySettles ==
  /\ resolve.pc = "reply"
  /\ \E ok \in BOOLEAN :
       LET replied == [resolve EXCEPT
                         !.reply = IF ok THEN "added" ELSE "failed"]
       IN
       resolve' =
         IF afterReply(resolve.node, ok) = "resolve"
           THEN Issue(replied, "resolve")
           ELSE [replied EXCEPT !.pc = "returned",
                                !.result = ToolSuccess(TRUE, ok)]
  /\ UNCHANGED <<submitVars, commentBody, writerVars, breakerVars,
                 categorizeVars, batchVars, fetchVars, promptVars,
                 extraction, bulk>>

\* the resolveReviewThread mutation settles
ResolveSettles ==
  /\ resolve.pc = "resolve"
  /\ \E ok \in BOOLEAN :
       resolve' =
         IF ok
           THEN [resolve EXCEPT !.pc = "returned",
                                !.result = ToolSuccess(FALSE, "absent")]
           ELSE Thrown(resolve)
  /\ UNCHANGED <<submitVars, commentBody, writerVars, breakerVars,
                 categorizeVars, batchVars, fetchVars, promptVars,
                 extraction, bulk>>

NextResolve ==
  \/ ResolveInvoke
  \/ StatusSettles
  \/ StatusRetrySettles
  \/ ReplySettles
  \/ ResolveSettles

SpecResolve == InitResolve /\ [][NextResolve]_vars

\* -------------------------------------------------------- bulk_resolve_threads
\* largest number of thread ids handed to bulk_resolve_threads
MaxBulkThreads == 2

\* maxConcurrent of the withBatchErrorRecovery call
BulkMaxConcurrent == 3

\* the ids handed over: a thread id and a comment id
BulkIds ==
  {ThreadIdText("PRRT_", "node", 20), ThreadIdText("PRRC_", "node", 20)}

\* the optional comment: not passed, blank, text
BulkComments == {NoBody, <<" ">>, <<"a">>}

\* what a remote call throws when it fails: one error per recovery plan
BulkErrors ==
  {Err({"rate limit"}, FALSE), Err({"404", "not found"}, TRUE),
   Err({"401"}, FALSE), Err({"boom"}, FALSE)}

\* a thread as the remote holds it ("missing": no such node) and the
\* wrapper of its item: position, number of invocations of the item
\* callback, error of the first failed invocation, number of reply
\* mutations the remote accepted, and how the wrapper ended
BulkThread(id, remote) ==
  [id |-> id, remote |-> remote, pc |-> "pending", runs |-> 0,
   firstError |-> NoError, posted |-> 0, ended |-> "none"]

InitBulk ==
  /\ OthersIdle
  /\ BreakerInit
  /\ CategorizeIdle
  /\ BatchIdle
  /\ FetchIdle
  /\ PageIdle
  /\ PromptIdle
  /\ extraction = <<>>
  /\ resolve = [pc |-> "idle"]
  /\ \E n \in 0..MaxBulkThreads :
       \E ids \in [1..n -> BulkIds] :
         \E remote \in [1..n -> {"open", "resolved", "missing"}] :
           \E comment \in BulkComments, token \in BOOLEAN :
             bulk = [pc |-> "called", comment |-> comment, token |-> token,
                     i |-> 0,
                     threads |-> [k \in 1..n |->
                                    BulkThread(ids[k], remote[k])],
                     results |-> <<>>, errors |-> <<>>,
                     response |-> [kind |-> "none", success |-> FALSE,
                                   resolved |-> 0, failed |-> 0]]

\* batch = items.slice(i, i + maxConcurrent), as indices from 1
BulkChunk(i) == (i + 1)..Min(i + BulkMaxConcurrent, Len(bulk.threads))

\* batch.map(...): the callback of every thread of the chunk is invoked and
\* issues its status query
BulkStartChunk(i) ==
  [k \in DOMAIN bulk.threads |->
     IF k \in BulkChunk(i)
       THEN [bulk.threads[k] EXCEPT !.pc = "status", !.runs = 1]
       ELSE bulk.threads[k]]

\* the error payloads: invalid ids, and the outer catch block
BulkError ==
  [kind |-> "error", success |-> FALSE, resolved |-> 0, failed |-> 0]

\* the handler up to its first await
BulkInvoke ==
  /\ bulk.pc = "called"
  /\ bulk' =
       IF \E k \in DOMAIN bulk.threads :
            ~validateGitHubReviewThreadId(bulk.threads[k].id).valid
         THEN [bulk EXCEPT !.pc = "returned", !.response = BulkError]
       ELSE IF ~bulk.token
         THEN [bulk EXCEPT !.pc = "returned", !.response = BulkError]
       ELSE IF Len(bulk.threads) = 0
         THEN [bulk EXCEPT !.pc = "returned",
                           !.response = [kind |-> "report",
                                         success |-> TRUE, resolved |-> 0,
                                         failed |-> 0]]
       ELSE [bulk EXCEPT !.pc = "awaiting", !.threads = BulkStartChunk(0)]
  /\ UNCHANGED <<submitVars, commentBody, writerVars, breakerVars,
                 categorizeVars, batchVars, fetchVars, promptVars,
                 extraction, resolve>>

\* how a withErrorRecovery call around one remote call may end: with the
\* value of the first attempt, or, the first attempt having failed, as the
\* plan for that error has it
InnerOutcomes(isCritical) ==
  {Outcome("value", NoError)} \cup
  UNION {LET config == getRecoveryConfig(categorizeError(error), isCritical)
         IN CASE config.strategy = "retry" ->
                   {Outcome("value", NoError)} \cup
                   {AfterRetryFailure(isCritical, retryError) :
                      retryError \in BulkErrors}
              [] config.strategy \in {"skip", "degrade"} ->
                   {Outcome("null", NoError)}
              [] OTHER -> {Outcome("raise", error)} :
         error \in BulkErrors}

\* the wrapper of item k ends: with the value of the callback ("skipped",
\* "already", "resolved", "unresolved"), with null, or by raising, which
\* pushes the item onto errors
BulkSettle(k, it, ended) ==
  [bulk EXCEPT !.threads[k] = [it EXCEPT !.pc = "settled",
                                         !.ended = ended],
               !.errors = IF ended = "raise" THEN Append(@, k) ELSE @]

\* the callback of item k returns a value
OperationReturns(k, it, value) == BulkSettle(k, it, value)

\* the callback of item k throws: the catch block of the withErrorRecovery
\* call that withBatchErrorRecovery wraps around it (isCritical: false),
\* and retryWithBackoff invoking the callback again
OperationThrows(k, it, error) ==
  IF it.runs = 1
    THEN LET config == getRecoveryConfig(categorizeError(error), FALSE) IN
         CASE config.strategy = "retry" ->
                [bulk EXCEPT !.threads[k] =
                   [it EXCEPT !.pc = "status", !.runs = 2,
                              !.firstError = error]]
           [] config.strategy \in {"skip", "degrade"} ->
                BulkSettle(k, it, "null")
           [] OTHER -> BulkSettle(k, it, "raise")
    ELSE LET config == getRecoveryConfig(categorizeError(it.firstError),
                                         FALSE)
             primitive == retryWithBackoff(it.runs - 1, config.maxAttempts,
                                           FALSE)
         IN IF primitive = "again"
              THEN [bulk EXCEPT !.threads[k] =
                      [it EXCEPT !.pc = "status", !.runs = @ + 1]]
              ELSE BulkSettle(k, it, AfterRetryFailure(FALSE, error).kind)

\* after the status query: a missing thread is skipped, the optional
\* comment comes next, a resolved thread is not resolved again
AfterBulkStatus(k, it, comment) ==
  IF it.remote = "missing" THEN OperationReturns(k, it, "skipped")
  ELSE IF hasComment(comment)
    THEN [bulk EXCEPT !.threads[k] = [it EXCEPT !.pc = "reply"]]
  ELSE IF it.remote = "resolved" THEN OperationReturns(k, it, "already")
  ELSE [bulk EXCEPT !.threads[k] = [it EXCEPT !.pc = "resolve"]]

\* withErrorRecovery(status query, false) of a thread is over
BulkStatusSettles ==
  /\ bulk.pc = "awaiting"
  /\ \E k \in DOMAIN bulk.threads :
       /\ bulk.threads[k].pc = "status"
       /\ \E outcome \in InnerOutcomes(FALSE) :
            bulk' =
              CASE outcome.kind = "value" ->
                     AfterBulkStatus(k, bulk.threads[k], bulk.comment)
                [] outcome.kind = "null" ->
                     OperationReturns(k, bulk.threads[k], "skipped")
                [] OTHER ->
                     OperationThrows(k, bulk.threads[k], outcome.error)
  /\ UNCHANGED <<submitVars, commentBody, writerVars, breakerVars,
                 categorizeVars, batchVars, fetchVars, promptVars,
                 extraction, resolve>>

\* withErrorRecovery(reply mutation, false) of a thread is over
BulkReplySettles ==
  /\ bulk.pc = "awaiting"
  /\ \E k \in DOMAIN bulk.threads :
       /\ bulk.threads[k].pc = "reply"
       /\ \E outcome \in InnerOutcomes(FALSE) :
            LET it == [bulk.threads[k] EXCEPT
                         !.posted = IF outcome.kind = "value"
                                      THEN @ + 1 ELSE @]
            IN
            bulk' =
              IF outcome.kind = "raise"
                THEN OperationThrows(k, it, outcome.error)
              ELSE IF it.remote = "resolved"
                THEN OperationReturns(k, it, "already")
              ELSE [bulk EXCEPT !.threads[k] = [it EXCEPT !.pc = "resolve"]]
  /\ UNCHANGED <<submitVars, commentBody, writerVars, breakerVars,
                 categorizeVars, batchVars, fetchVars, promptVars,
                 extraction, resolve>>

\* withErrorRecovery(resolve mutation, true) of a thread is over
BulkResolveSettles ==
  /\ bulk.pc = "awaiting"
  /\ \E k \in DOMAIN bulk.threads :
       /\ bulk.threads[k].pc = "resolve"
       /\ \E outcome \in InnerOutcomes(TRUE) :
            bulk' =
              CASE outcome.kind = "value" ->
                     OperationReturns(
                       k, [bulk.threads[k] EXCEPT !.remote = "resolved"],
                       "resolved")
                [] outcome.kind = "null" ->
                     OperationReturns(k, bulk.threads[k], "unresolved")
                [] OTHER ->
                     OperationThrows(k, bulk.threads[k], outcome.error)
  /\ UNCHANGED <<submitVars, commentBody, writerVars, breakerVars,
                 categorizeVars, batchVars, fetchVars, promptVars,
                 extraction, resolve>>

\* batchResults.filter((r) => r !== null)
bulkResults(batchResults) == SelectSeq(batchResults, LAMBDA r : r # "null")

\* the response built from the results and errors of the batch
BulkResponse(batchResults, failed) ==
  [kind |-> "report", success |-> Len(failed) = 0,
   resolved |-> Len(bulkResults(batchResults)), failed |-> Len(failed)]

\* await Promise.all(batchPromises) resolves: the results of the chunk are
\* pushed, the next chunk starts or the handler builds its response
BulkPromiseAllResolves ==
  /\ bulk.pc = "awaiting"
  /\ \A k \in BulkChunk(bulk.i) : bulk.threads[k].pc = "settled"
  /\ LET next == bulk.i + BulkMaxConcurrent
         pushed == bulk.results \o
                     [j \in 1..Cardinality(BulkChunk(bulk.i)) |->
                        LET ended == bulk.threads[bulk.i + j].ended IN
                        IF ended = "raise" THEN "null" ELSE ended]
     IN bulk' =
          IF next < Len(bulk.threads)
            THEN [bulk EXCEPT !.i = next, !.results = pushed,
                              !.threads = BulkStartChunk(next)]
            ELSE [bulk EXCEPT !.i = next, !.results = pushed,
                              !.pc = "returned",
                              !.response = BulkResponse(pushed, bulk.errors)]
  /\ UNCHANGED <<submitVars, commentBody, writerVars, breakerVars,
                 categorizeVars, batchVars, fetchVars, promptVars,
                 extraction, resolve>>

NextBulk ==
  \/ BulkInvoke
  \/ BulkStatusSettles
  \/ BulkReplySettles
  \/ BulkResolveSettles
  \/ BulkPromiseAllResolves

SpecBulk == InitBulk /\ [][NextBulk]_vars

\* ------------------------ fetchAllReviewThreads: both loops and the remote
\* The answers of the remote are part of the state: result is the thread
\* page the handler awaits, commentResult the comment page, so that one
\* iteration of a loop is a step even when it leaves the loop variables
\* as they were.
NoPage == [threads |-> 0, hasNextPage |-> FALSE]

NoCommentResult == [null |-> TRUE, nodes |-> 0, hasNextPage |-> FALSE]

\* the sizes of the pages the remote answers with: empty or full
ThreadPageSizes == {0, ThreadPageSize}
CommentPageSizes == {0, CommentPageSize}

InitPaging ==
  /\ OthersIdle
  /\ BreakerInit
  /\ CategorizeIdle
  /\ BatchIdle
  /\ PromptIdle
  /\ ToolIdle
  /\ fetch = [pc |-> "idle", threadCount |-> 0, hasNextPage |-> TRUE,
              allThreads |-> 0, result |-> NoPage]
  /\ page = [pc |-> "idle", threads |-> 0, t |-> 0, nodes |-> 0,
             commentCount |-> 0, hasMoreComments |-> FALSE, brk |-> FALSE,
             failure |-> NoFailure, commentResult |-> NoCommentResult]

\* fetchAllReviewThreads up to the loop
CallFetchAll ==
  /\ fetch.pc = "idle"
  /\ fetch' = [fetch EXCEPT !.pc = "loop"]
  /\ UNCHANGED <<submitVars, commentBody, writerVars, breakerVars,
                 categorizeVars, batchVars, page, promptVars, toolVars>>

\* while (hasNextPage && threadCount < MAX_THREADS): the thread page is
\* queried through the circuit breaker and the remote answers; the first
\* thread of the page, if any, is entered
QueryThreadPage ==
  /\ fetch.pc = "loop"
  /\ fetch.hasNextPage /\ fetch.threadCount < MAX_THREADS
  /\ IF state = "open" /\ now - lastFailureTime < resetTimeoutMs
       THEN /\ fetch' = [fetch EXCEPT !.pc = "threw"]
            /\ UNCHANGED <<state, failures, lastFailureTime, page>>
       ELSE \E ok \in BOOLEAN :
              IF ok
                THEN /\ onSuccess
                     /\ UNCHANGED lastFailureTime
                     /\ \E threads \in ThreadPageSizes,
                           hasNextPage \in BOOLEAN :
                          /\ fetch' = [fetch EXCEPT
                                         !.pc = "page",
                                         !.result =
                                           [threads |-> threads,
                                            hasNextPage |-> hasNextPage]]
                          /\ IF threads = 0
                               THEN page' = [page EXCEPT !.pc = "pushed",
                                                         !.threads = 0]
                               ELSE \E first \in CommentPageSizes,
                                       more \in BOOLEAN :
                                      page' = EnterThread(
                                                [page EXCEPT
                                                   !.threads = threads],
                                                1, first, more)
                ELSE /\ onFailure
                     /\ fetch' = [fetch EXCEPT !.pc = "threw"]
                     /\ UNCHANGED page
  /\ UNCHANGED <<now, executing, stats>>
  /\ UNCHANGED <<submitVars, commentBody, writerVars, categorizeVars,
                 batchVars, promptVars, toolVars>>

\* while (hasMoreComments && commentCount < MAX_COMMENTS_PER_THREAD): the
\* next comment page is queried through withErrorRecovery and the call ends
\* with a page, with null, or by raising
QueryCommentPage ==
  /\ fetch.pc = "page"
  /\ page.pc = "thread"
  /\ MoreCommentsWanted(page)
  /\ \E outcome \in CommentFetchOutcomes :
       CASE outcome.kind = "value" ->
              /\ \E nodes \in CommentPageSizes, more \in BOOLEAN :
                   page' = [page EXCEPT
                              !.pc = "comments",
                              !.commentResult =
                                [null |-> FALSE, nodes |-> nodes,
                                 hasNextPage |-> more]]
              /\ UNCHANGED fetch
         [] outcome.kind = "null" ->
              /\ page' = [page EXCEPT !.pc = "comments",
                                      !.commentResult = NoCommentResult]
              /\ UNCHANGED fetch
         [] OTHER ->
              /\ page' = [page EXCEPT !.pc = "threw"]
              /\ fetch' = [fetch EXCEPT !.pc = "threw"]
  /\ UNCHANGED <<submitVars, commentBody, writerVars, breakerVars,
                 categorizeVars, batchVars, promptVars, toolVars>>

\* the rest of the iteration of the comment loop
ReceiveCommentPage ==
  /\ page.pc = "comments"
  /\ page' =
       IF page.commentResult.null
         THEN [AfterNullResult(page) EXCEPT !.pc = "thread"]
         ELSE LET added == commentsToAdd(
                             page.commentResult.nodes,
                             MAX_COMMENTS_PER_THREAD - page.commentCount)
              IN [page EXCEPT
                    !.pc = "thread",
                    !.nodes = @ + added,
                    !.commentCount = @ + added,
                    !.hasMoreComments = page.commentResult.hasNextPage]
  /\ UNCHANGED <<submitVars, commentBody, writerVars, breakerVars,
                 categorizeVars, batchVars, fetch, promptVars, toolVars>>

\* the comment loop of a thread is over: the next thread of the page is
\* entered, or the for loop is over
LeaveThread ==
  /\ fetch.pc = "page"
  /\ page.pc = "thread"
  /\ ~MoreCommentsWanted(page)
  /\ IF page.t < page.threads
       THEN \E first \in CommentPageSizes, more \in BOOLEAN :
              page' = EnterThread(page, page.t + 1, first, more)
       ELSE page' = [page EXCEPT !.pc = "pushed"]
  /\ UNCHANGED <<submitVars, commentBody, writerVars, breakerVars,
                 categorizeVars, batchVars, fetch, promptVars, toolVars>>

\* allThreads.push(...threads) and the update of the loop variables
PushThreads ==
  /\ fetch.pc = "page"
  /\ page.pc = "pushed"
  /\ fetch' = [fetch EXCEPT !.pc = "loop",
                            !.allThreads = @ + fetch.result.threads,
                            !.threadCount = @ + fetch.result.threads,
                            !.hasNextPage = fetch.result.hasNextPage]
  /\ page' = [page EXCEPT !.pc = "idle", !.threads = 0, !.t = 0,
                          !.nodes = 0, !.commentCount = 0,
                          !.hasMoreComments = FALSE, !.brk = FALSE]
  /\ UNCHANGED <<submitVars, commentBody, writerVars, breakerVars,
                 categorizeVars, batchVars, promptVars, toolVars>>

\* the loop condition fails: return allThreads
ReturnAllThreads ==
  /\ fetch.pc = "loop"
  /\ ~(fetch.hasNextPage /\ fetch.threadCount < MAX_THREADS)
  /\ fetch' = [fetch EXCEPT !.pc = "returned"]
  /\ UNCHANGED <<submitVars, commentBody, writerVars, breakerVars,
                 categorizeVars, batchVars, page, promptVars, toolVars>>

NextPaging ==
  \/ CallFetchAll
  \/ QueryThreadPage
  \/ QueryCommentPage
  \/ ReceiveCommentPage
  \/ LeaveThread
  \/ PushThreads
  \/ ReturnAllThreads

\* The function runs on an event loop that resumes it whenever an awaited
\* answer has arrived, and the remote answers every query: a step that is
\* possible is eventually taken.
SpecPaging == InitPaging /\ [][NextPaging]_vars /\ WF_vars(NextPaging)

\* ----------------------------------------------- claims on submit_pr_review
Idx(op) == {i \in 1..Len(log) : log[i].op = op}

Succeeded(op) == {i \in Idx(op) : log[i].ok}

\* a formal review was recorded: a createReview or submitReview call succeeded
Recorded == Succeeded("createReview") \cup Succeeded("submitReview")

ReviewById(id) == reviews[IndexOf(reviews, id)]

\* the merged body as the claim words it: old body, separator, new body, the
\* separator only when both are non-empty
LiteralMerge(old, new) ==
  old \o (IF old # <<>> /\ new # <<>> THEN Separator ELSE <<>>) \o new

\* the merged body with both parts trimmed and blank parts left out; the new
\* body as it is when both are blank
TrimmedMerge(old, new) ==
  IF trim(old) = <<>> /\ trim(new) = <<>> THEN new
  ELSE trim(old)
         \o (IF trim(old) # <<>> /\ trim(new) # <<>> THEN Separator ELSE <<>>)
         \o trim(new)

\* C1 (as stated): when the existing pending review is submitted successfully,
\* it carries the requested verdict and the body "old, separator, new" and
\* createReview is never called in the invocation.
C1_Original ==
  \A i \in Succeeded("submitReview") :
    /\ log[i].id = local.pendingReview.id
    /\ ReviewById(log[i].id).state = StateOfEvent(input.event)
    /\ log[i].arg = LiteralMerge(local.pendingReview.body, local.sanitizedBody)
    /\ Idx("createReview") = {}

\* C1 (amended): when the existing pending review is submitted successfully,
\* it is that review which is submitted, with the requested verdict and the
\* merge of the trimmed old body and the trimmed new sanitized body (separator
\* only when both are non-blank, the new body as it is when both are blank);
\* no createReview call succeeds in the invocation and none follows the
\* submission; when the pre-flight check found the review createReview is not
\* called at all.
C1_MergedPendingReview ==
  \A i \in Succeeded("submitReview") :
    /\ log[i].id = local.pendingReview.id
    /\ ReviewById(log[i].id).state = StateOfEvent(input.event)
    /\ ReviewById(log[i].id).body = log[i].arg
    /\ log[i].arg = TrimmedMerge(local.pendingReview.body, local.sanitizedBody)
    /\ Succeeded("createReview") = {}
    /\ \A j \in Idx("createReview") : j < i
    /\ log[i].phase = "main" => Idx("createReview") = {}

\* C1 witness: the scenario of the specification, a pending review with a
\* non-blank body merged with a non-blank new body on the pre-flight path
C1_Witness ==
  /\ pc = "done"
  /\ result.success
  /\ \E i \in Succeeded("submitReview") :
       /\ log[i].phase = "main"
       /\ local.pendingReview.body = <<"a">>
       /\ input.event = "COMMENT"
       /\ log[i].arg = <<"a">> \o Separator \o <<"a">>

UserOf(id) == ReviewById(id).user

\* C2 (as stated): submit_pr_review submits, merges into or dismisses a pending
\* review only if the authenticated identity wrote it.
C2_OnlyOwnPendingReviews ==
  \A i \in Idx("submitReview") \cup Idx("dismissReview") :
    UserOf(log[i].id) = BotUserId

ConflictRaised ==
  \E i \in Idx("createReview") : ~log[i].ok
    /\ local.errorMessage = ConflictMessage

\* the error payload tells the human to submit or dismiss the pending review
TellsManualResolution(r) ==
  ~r.success /\ (r.kind = "recovery_failed"
                   \/ (r.kind = "error" /\ r.error = ConflictMessage))

\* C3: per invocation createReview is called at most once and the merge path
\* runs at most twice; after the conflict error the pending reviews are
\* queried once more and the merge path runs at most once more; if that does
\* not succeed the tool returns the error that asks for manual resolution.
C3_SingleRecovery ==
  /\ Cardinality(Idx("createReview")) <= 1
  /\ Cardinality(Idx("submitReview")) <= 2
  /\ Cardinality({i \in Idx("submitReview") : log[i].phase = "recovery"}) <= 1
  /\ Cardinality({i \in Idx("listReviews") : log[i].phase = "recovery"}) <= 1
  /\ (pc = "done" /\ ConflictRaised) =>
       /\ \E i \in Idx("listReviews") : log[i].phase = "recovery"
       /\ result.success \/ TellsManualResolution(result)
       /\ result.success =>
            \E i \in Succeeded("submitReview") : log[i].phase = "recovery"

\* C3 witness: the merge path ran twice and the recovery failed
C3_Witness ==
  /\ pc = "done"
  /\ ConflictRaised
  /\ Cardinality(Idx("submitReview")) = 2
  /\ TellsManualResolution(result)

\* the call that follows call i in the log, if any
HasNext(i) == i < Len(log)

C5_BodyRequired ==
  pc # "idle" =>
    /\ (input.event \in {"REQUEST_CHANGES", "COMMENT"}
          /\ trim(sanitizeContent(input.body)) = <<>>) =>
         pc = "done" /\ log = <<>> /\ ~result.success
    /\ (input.event = "APPROVE" /\ githubToken) =>
         (pc = "done" => log # <<>>)
    /\ (githubToken /\ trim(sanitizeContent(input.body)) # <<>>) =>
         (pc = "done" => log # <<>>)

\* C5 witness: a COMMENT body that is blank only after sanitization is rejected
C5_Witness ==
  /\ pc = "done"
  /\ githubToken
  /\ input.event = "COMMENT"
  /\ input.body = <<"S">>
  /\ log = <<>>

\* C6 (as stated): whenever the tool returns success the metadata write was
\* attempted (addTrackingCommentMetadata was run).
C6_MetadataAlwaysAttempted ==
  (pc = "done" /\ result.success) => local.metadata # "none"

\* C7: once a createReview or submitReview call has succeeded, the tool
\* returns success with the id of that review, whatever fails afterwards.
C7_PostProcessingNeverFails ==
  (pc = "done" /\ Recorded # {}) =>
    /\ result.success
    /\ \A i \in Recorded : result.review_id = log[i].id

\* C7 witness: the metadata write and a dismissal failed, success is returned
C7_Witness ==
  /\ pc = "done"
  /\ result.success
  /\ local.metadata = "failed"
  /\ \E i \in Idx("dismissPrevious") : ~log[i].ok

\* C8: a CHANGES_REQUESTED review of the authenticated identity becomes
\* dismissed only in an invocation whose verdict is COMMENT and only after
\* the new review was recorded; the dismissals of earlier change requests are
\* issued only for a COMMENT verdict and after the recorded review.
C8_DismissOnlyAfterComment ==
  /\ [](\A i \in Idx("dismissPrevious") :
          /\ input.event = "COMMENT"
          /\ \E j \in Recorded : j < i)
  /\ [][\A k \in 1..Len(reviews) :
          (reviews[k].state = "CHANGES_REQUESTED"
             /\ reviews[k].user = BotUserId
             /\ reviews'[k].state = "DISMISSED")
            => (input.event = "COMMENT" /\ Recorded # {})]_vars

\* C8 witness: an earlier change request was dismissed
C8_Witness ==
  /\ pc = "done"
  /\ \E i \in Succeeded("dismissPrevious") :
       ReviewById(log[i].id).state = "DISMISSED"

\* ---------------------------------------- claims on the tracking comment
\* C9 (as stated): after every completed metadata write the tracking comment
\* holds exactly one marker, that of the most recent write, whatever the body
\* held before and however two submissions interleave.
C9_SingleMarker ==
  written # <<>> =>
    /\ MarkerCount(commentBody) = 1
    /\ \E i \in 1..Len(commentBody) : commentBody[i] = written[Len(written)]

\* ------------------------------------------- claims on the circuit breaker
\* C10: after failureThreshold consecutive failures the breaker is open, and
\* not before; a call made while it is open and less than resetTimeoutMs after
\* the last failure is rejected and does not invoke the operation.
C10_OpenAfterThreshold ==
  /\ [](stats.consecutiveFailures < failureThreshold => state = "closed")
  /\ [][(stats.consecutiveFailures' = stats.consecutiveFailures + 1
          /\ stats.consecutiveFailures' >= failureThreshold)
          => state' = "open"]_vars
  /\ [][(state = "open" /\ now - lastFailureTime < resetTimeoutMs)
          => /\ stats'.invocations = stats.invocations
             /\ stats'.calls > stats.calls =>
                  /\ stats'.rejections = stats.rejections + 1
                  /\ state' = "open"]_vars

\* C10 witness: the breaker opened at the threshold and rejected a call
C10_Witness ==
  /\ state = "open"
  /\ stats.consecutiveFailures = failureThreshold
  /\ stats.rejections > 0
  /\ now - lastFailureTime < resetTimeoutMs

\* C11 (as stated): once resetTimeoutMs has elapsed in the open state one call
\* is admitted as the half-open probe, and while that probe is in flight the
\* operation of no other execute call is invoked.
C11_SingleProbe ==
  [][(stats.probe # 0 /\ executing[stats.probe].running)
       => stats'.invocations = stats.invocations]_vars

\* the state changes the breaker is specified to make
BreakerTransitions ==
  {<<"closed", "open">>, <<"open", "half-open">>,
   <<"half-open", "closed">>, <<"half-open", "open">>}

\* C12 (as stated): the breaker state changes only along closed -> open,
\* open -> half-open, half-open -> closed and half-open -> open, also when
\* execute calls overlap; in particular never from open to closed directly.
C12_Transitions ==
  [][state' # state => <<state, state'>> \in BreakerTransitions]_vars

\* -------------------------------------------- claims on the error recovery
FailFastCategories == {"authentication", "permission", "validation"}

\* the plan withErrorRecovery selected for an item whose operation failed
PlanOf(it) ==
  getRecoveryConfig(categorizeError(it.firstError), batch.isCritical)

\* C13: when the first failure of the operation is categorised
\* authentication, permission or validation, the operation was invoked
\* exactly once, the backoff primitive was not called and withErrorRecovery
\* re-raised that very error instead of returning null, for critical and
\* non-critical calls alike.
C13_FailFast ==
  \A k \in DOMAIN items :
    (/\ items[k].firstError # NoError
     /\ categorizeError(items[k].firstError) \in FailFastCategories)
    => /\ items[k].pc = "settled"
       /\ items[k].attempts = 1
       /\ items[k].backoffCalls = 0
       /\ items[k].outcome = Outcome("raise", items[k].firstError)

\* C13 witness: a non-critical call re-raised a permission error
C13_Witness ==
  /\ ~batch.isCritical
  /\ Len(items) = 1
  /\ categorizeError(items[1].firstError) = "permission"
  /\ items[1].outcome.kind = "raise"

\* C14: under the retry strategy, once the backoff has used up its attempts
\* withErrorRecovery re-raises for a critical operation and returns null for
\* a non-critical one; under the skip strategy it returns null without
\* raising and without invoking the operation a second time.
C14_RetryAndSkip ==
  \A k \in DOMAIN items :
    (items[k].pc = "settled" /\ items[k].firstError # NoError)
    => /\ (PlanOf(items[k]).strategy = "retry"
             /\ items[k].outcome.kind # "value")
          => /\ items[k].backoffCalls = 1
             /\ items[k].attempts = 1 + PlanOf(items[k]).maxAttempts
             /\ batch.isCritical
                  => /\ items[k].outcome.kind = "raise"
                     /\ items[k].outcome.error \in batch.throws
             /\ ~batch.isCritical
                  => items[k].outcome = Outcome("null", NoError)
       /\ PlanOf(items[k]).strategy = "skip"
          => /\ items[k].outcome = Outcome("null", NoError)
             /\ items[k].attempts = 1
             /\ items[k].backoffCalls = 0

\* C14 witness: a critical call whose five backoff attempts all failed
C14_Witness ==
  /\ batch.isCritical
  /\ Len(items) = 1
  /\ categorizeError(items[1].firstError) = "network"
  /\ items[1].attempts = 6
  /\ items[1].outcome.kind = "raise"

\* the rules of categorizeError in their documented order
Rules ==
  <<[category |-> "rate_limit", patterns |-> RateLimitPatterns],
    [category |-> "not_found", patterns |-> NotFoundPatterns],
    [category |-> "authentication", patterns |-> AuthenticationPatterns],
    [category |-> "permission", patterns |-> PermissionPatterns],
    [category |-> "network", patterns |-> NetworkPatterns],
    [category |-> "server_error", patterns |-> ServerErrorPatterns],
    [category |-> "validation", patterns |-> ValidationPatterns]>>

\* the rules a message matches, whatever its case
Matching(message) ==
  {r \in DOMAIN Rules : message.words \cap Rules[r].patterns # {}}

FirstMatch(error) ==
  IF ~error.isError \/ Matching(error.message) = {} THEN "unknown"
  ELSE Rules[CHOOSE r \in Matching(error.message) :
               \A q \in Matching(error.message) : r <= q].category

\* C15: categorizeError returns the category of the first matching rule in
\* the order rate_limit, not_found, authentication, permission, network,
\* server_error, validation, and unknown when no rule matches or the value
\* is not an Error; '403 Forbidden' is permission with plan fail_fast.
C15_FirstMatchingRule ==
  category.category # "none"
  => /\ category.category = FirstMatch(thrown.error)
     /\ thrown.error = Err({"403", "forbidden"}, TRUE)
          => /\ category.category = "permission"
             /\ category.config.strategy = "fail_fast"

\* C15 witness: a message matching the permission and the network rule
C15_Witness ==
  /\ thrown.error = Err({"forbidden", "timeout"}, TRUE)
  /\ category.category = "permission"

\* every attempt of the operation failed, for every item
AllItemsFailed ==
  \A k \in DOMAIN items : items[k].outcome.kind \in {"null", "raise"}

\* C16 (as stated): a batch whose items all fail returns results of length N
\* holding only null and errors of length N keyed by item, for every error
\* category and for critical and non-critical batches.
C16_AllFailing ==
  (batchPc.pc = "returned" /\ AllItemsFailed)
  => /\ Len(results) = Len(items)
     /\ \A k \in DOMAIN results : results[k] = Null
     /\ Len(errors) = Len(items)
     /\ \A k \in DOMAIN items : \E j \in DOMAIN errors : errors[j].item = k

\* the chunk an item belongs to
ChunkIndex(k) == (k - 1) \div batch.maxConcurrent

\* C17: never more than maxConcurrent item operations are in flight, and no
\* operation of a later chunk is started before every operation of the
\* earlier chunks, retries included, has settled.
C17_BoundedConcurrency ==
  /\ Cardinality({k \in DOMAIN items : InFlight(items[k])})
       <= batch.maxConcurrent
  /\ \A j, k \in DOMAIN items :
       (ChunkIndex(j) < ChunkIndex(k) /\ items[k].pc # "pending")
       => items[j].pc = "settled"

\* C17 witness: the second chunk is retrying after a first chunk that
\* retried too
C17_Witness ==
  /\ batch.maxConcurrent = 2
  /\ Len(items) = 3
  /\ items[3].pc = "backoff"
  /\ items[1].attempts > 1 /\ items[2].attempts > 1

\* C18: results[i] is the outcome of items[i], the value or null, whatever
\* the order in which the operations of a chunk complete.
C18_Positional ==
  batchPc.pc = "returned"
  => /\ Len(results) = Len(items)
     /\ \A k \in DOMAIN items :
          results[k] = IF items[k].outcome.kind = "value"
                         THEN Value(k) ELSE Null

\* C18 witness: the second item of a chunk completed before the first, one
\* with a value and the other with null
C18_Witness ==
  /\ batchPc.pc = "returned"
  /\ batchPc.outOfOrder
  /\ batch.maxConcurrent = 2
  /\ Len(results) >= 2
  /\ results[1] = Null
  /\ results[2] = Value(2)

\* C19 (as stated): under failOnAnyError a failing item operation makes the
\* call reject with that failure instead of returning, and no operation of a
\* later chunk is started, for every error category and for critical and
\* non-critical batches.
C19_FailOnAnyError ==
  batch.failOnAnyError
  => /\ batchPc.pc = "returned"
          => \A k \in DOMAIN items : items[k].firstError = NoError
     /\ batchPc.pc = "rejected"
          => /\ batchPc.error \in batch.throws
             /\ \A k \in DOMAIN items :
                  k > batchPc.i + batch.maxConcurrent
                  => items[k].pc = "pending"

\* ---------------------------------------- claims on fetchAllReviewThreads
\* C20 (as stated): fetchAllReviewThreads never returns more than MAX_THREADS
\* threads, for every sequence of pages of at most ThreadPageSize threads.
C20_ThreadCap ==
  fetch.pc = "returned" => fetch.allThreads <= MAX_THREADS

\* C21: no thread carries more than MAX_COMMENTS_PER_THREAD comments, before
\* and after it is pushed, whatever further comment pages the remote offers,
\* the first comment page holding at most CommentPageSize comments.
C21_CommentCap == page.nodes <= MAX_COMMENTS_PER_THREAD

\* C21 witness: a thread was pushed with the cap reached while the remote
\* still offered more comments
C21_Witness ==
  /\ page.pc = "pushed"
  /\ page.nodes = MAX_COMMENTS_PER_THREAD
  /\ page.hasMoreComments

\* C22 (as stated): when a thread-page call fails or is rejected by the open
\* breaker after threads were accumulated, fetchAllReviewThreads still
\* returns those threads.
C22_PartialResults == ~(fetch.pc = "threw" /\ fetch.allThreads > 0)

\* C23 (as stated): whatever error makes the fetch of a further comment page
\* fail, fetchAllReviewThreads does not fail.
C23_Original == page.failure.kind # "none" => page.pc # "threw"

\* C23 (amended): a failed fetch of a further comment page makes
\* fetchAllReviewThreads fail exactly when the error is categorised
\* authentication, permission or validation; for every other error the
\* thread keeps the comments it has, its comment loop ends and the remaining
\* threads and the page are processed.
C23_NonFatalCommentFailure ==
  /\ [](page.pc = "threw" <=> page.failure.kind = "raise")
  /\ [](page.failure.kind # "none" =>
          (page.failure.kind = "raise"
             <=> categorizeError(page.failure.error) \in FailFastCategories))
  /\ []((page.pc = "thread" /\ page.failure.kind = "null"
           /\ page.failure.thread = page.t) => ~MoreCommentsWanted(page))
  /\ [][(page'.failure # page.failure /\ page'.failure.kind = "null")
          => /\ page'.nodes = page.nodes
             /\ page'.pc = "thread"]_vars

\* C23 witness: the comment fetch of the first thread failed, and the second
\* thread and the page were processed all the same
C23_Witness ==
  /\ page.pc = "pushed"
  /\ page.threads = 2
  /\ page.t = 2
  /\ page.failure.kind = "null"
  /\ page.failure.thread = 1

\* ------------------------------------------- claims on the review prompt
\* the identities of the fetched comments
CommentIds ==
  {c.databaseId : c \in Range(githubData.comments)}
    \cup {c.databaseId : c \in Range(githubData.reviewComments)}

EntriesOf(databaseId) ==
  {i \in DOMAIN deduplicatedComments.list :
     deduplicatedComments.list[i].databaseId = databaseId}

\* C24: every comment identity of the general-comment list or the
\* review-comment list has exactly one entry in the deduplicated output,
\* and the entry has a file and a line when a source provided them.
C24_OneEntryWithLocation ==
  deduplicatedComments.done =>
    \A id \in CommentIds :
      /\ Cardinality(EntriesOf(id)) = 1
      /\ (\E c \in Range(githubData.reviewComments) : c.databaseId = id)
           => \A i \in EntriesOf(id) :
                /\ deduplicatedComments.list[i].file # NoFile
                /\ deduplicatedComments.list[i].line # 0

OutdatedThreadIds ==
  {threadAnalysis.outdatedThreads[i].threadId :
     i \in DOMAIN threadAnalysis.outdatedThreads}

\* C25: no comment of a thread listed in outdatedThreads appears in the
\* output of the comment deduplication.
C25_NoOutdatedComment ==
  deduplicatedComments.done =>
    \A c \in Range(githubData.reviewComments) :
      threadKey(c) \in OutdatedThreadIds => EntriesOf(c.databaseId) = {}

\* C26: for every reconstructed thread, in validThreads or not,
\* readyForResolution holds only if the thread is relevant and not resolved.
C26_ReadyImpliesOpen ==
  threadAnalysis.done =>
    \A t \in Range(threadAnalysis.threads) :
      t.readyForResolution => t.isRelevant /\ ~t.isResolved

IdsOf(list) == {list[i].threadId : i \in DOMAIN list}

ThreadById(threadId) ==
  CHOOSE t \in Range(threadAnalysis.threads) : t.threadId = threadId

\* C27: in every plan no resolved thread and no ready-for-resolution thread
\* is in threadsToReplyTo, and no thread id is both in threadsToResolve and
\* in threadsToReplyTo.
C27_ReplyOnlyToOpenThreads ==
  threadActions.done =>
    /\ \A id \in IdsOf(threadActions.threadsToReplyTo) :
         /\ ~ThreadById(id).isResolved
         /\ ~ThreadById(id).readyForResolution
    /\ IdsOf(threadActions.threadsToResolve)
         \cap IdsOf(threadActions.threadsToReplyTo) = {}

\* a plan with a reply, a resolution, and a resolved thread and a ready
\* thread that are left without a reply
C27_Witness ==
  /\ threadActions.done
  /\ threadActions.threadsToReplyTo # <<>>
  /\ threadActions.threadsToResolve # <<>>
  /\ \E t \in Range(threadAnalysis.threads) :
       /\ t.isResolved \/ t.readyForResolution
       /\ t.isRelevant
       /\ t.threadId \notin IdsOf(threadActions.threadsToReplyTo)

AuthorSaysFixed(t) ==
  \E c \in Range(t.comments) :
    /\ c.author = githubData.prAuthor
    /\ IncludesAny(toLowerCase(c.body), {"fixed", "addressed"})

\* C28: every unresolved, relevant thread in which a comment of the PR
\* author contains "fixed" or "addressed" is in threadsToResolve with the
\* message "Thanks for addressing this feedback!", whoever commented last.
C28_ThanksForAddressing ==
  threadAnalysis.done =>
    \A t \in Range(threadAnalysis.threads) :
      (~t.isResolved /\ t.isRelevant /\ AuthorSaysFixed(t)) =>
        \E i \in DOMAIN threadAnalysis.threadsToResolve :
          /\ threadAnalysis.threadsToResolve[i].threadId = t.threadId
          /\ threadAnalysis.threadsToResolve[i].suggestedMessage
               = "Thanks for addressing this feedback!"

\* ------------------------------- claims on dismissPreviousChangeRequests
\* the reviews the authenticated identity asked changes with
MatchingIds(list) ==
  {list[i].id : i \in {j \in DOMAIN list :
                         /\ list[j].state = "CHANGES_REQUESTED"
                         /\ list[j].user = BotUserId}}

StepAdds(op) ==
  /\ Len(log') = Len(log) + 1
  /\ log'[Len(log')].op = op

\* C29: a dismissal is issued only for a review in state CHANGES_REQUESTED
\* whose user id is the authenticated one; the targets are exactly those
\* reviews, and when every dismissal succeeds dismissedCount is their number.
C29_OnlyOwnChangeRequests ==
  /\ [][StepAdds("dismissPrevious") =>
          log'[Len(log')].id \in MatchingIds(reviews)]_vars
  /\ [][(pc = "dismiss.listReviews" /\ log'[Len(log')].ok) =>
          /\ Range(local'.found) = MatchingIds(reviews)
          /\ Len(local'.found) = Cardinality(MatchingIds(reviews))]_vars
  /\ []((pc = "done" /\ local.errors = <<>>) =>
          /\ local.dismissedCount = Len(local.found)
          /\ MatchingIds(reviews) = {})

\* one own change request was dismissed while the change request of another
\* user and a review without user kept their state
C29_Witness ==
  /\ pc = "done"
  /\ local.errors = <<>>
  /\ local.dismissedCount = 1
  /\ \E i \in DOMAIN reviews :
       /\ reviews[i].state = "CHANGES_REQUESTED"
       /\ reviews[i].user \in {OtherUserId, NoUserId}

UpstreamFailed == local.errors = <<-1>>

DismissedAndVerdict ==
  /\ local.dismissedCount = Len(local.dismissedReviewIds)
  /\ Cardinality(Idx("dismissPrevious")) = Len(local.found)
  /\ result.success
  /\ ~local.success <=>
       \/ Len(local.found) > 0 /\ local.dismissedCount = 0
       \/ UpstreamFailed
  /\ UpstreamFailed => Idx("dismissPrevious") = {}

\* C30 as stated: on return dismissedCount plus the number of errors is the
\* number of targets, also when the identity or the listing failed.
C30_Original ==
  pc = "done" =>
    /\ DismissedAndVerdict
    /\ local.dismissedCount + Len(local.errors) = Len(local.found)

\* C30: every target is attempted, nothing is raised, dismissedCount is the
\* length of dismissedReviewIds, success is false exactly when all of at
\* least one dismissals failed or the identity or the listing failed; and
\* dismissedCount plus the number of errors is the number of targets when
\* the identity and the listing succeeded, while their failure leaves one
\* error, for review -1, and no target.
C30_IndependentDismissals ==
  pc = "done" =>
    /\ DismissedAndVerdict
    /\ IF UpstreamFailed
         THEN local.dismissedCount = 0 /\ local.found = <<>>
         ELSE local.dismissedCount + Len(local.errors) = Len(local.found)

\* the first dismissal failed and the second one succeeded
C30_Witness ==
  /\ pc = "done"
  /\ local.errors = <<1>>
  /\ local.dismissedReviewIds = <<2>>
  /\ local.success

\* ------------------------------------------ claims on the review metadata
\* the text holds one marker and the marker has the specified shape
SingleWellFormedMarker(body) ==
  /\ MarkerCount(body) = 1
  /\ LET json == body[FirstMarker(body)].json IN
     /\ json.wellFormed
     /\ json.lastReviewedSha.alphabet = "lower"
     /\ json.lastReviewedSha.length \in 7..40
     /\ json.reviewDate = ReviewDate

CompactMarkerOf(body) ==
  <<MetadataMarker(TRUE, body[FirstMarker(body)].json)>>

\* C31: a record that is generated and extracted comes back unchanged, and
\* a text with a single well-formed marker that is extracted and generated
\* becomes that marker in compact form, which a second round leaves as is.
C31_RoundTrip ==
  /\ \A i \in 1..(Len(extraction) - 2) :
       extraction[i].kind = "record" => extraction[i + 2] = extraction[i]
  /\ (extraction # <<>> /\ extraction[1].kind = "text"
        /\ SingleWellFormedMarker(extraction[1].body)) =>
       /\ Len(extraction) >= 3 =>
            extraction[3] = TextLink(CompactMarkerOf(extraction[1].body))
       /\ Len(extraction) >= 5 => extraction[5] = extraction[3]

\* what the parser is handed is not JSON, lacks a required member, has a SHA
\* that is not 7 to 40 lower-case hex digits, or a date that does not parse
RefusedAsSpecified(body) ==
  \/ body = <<>>
  \/ ~HasMarker(body)
  \/ LET json == captured(body[FirstMarker(body)].json) IN
     \/ ~json.wellFormed
     \/ json.lastReviewedSha = NoSha
     \/ json.reviewDate = "undefined"
     \/ ~(/\ json.lastReviewedSha.alphabet = "lower"
          /\ json.lastReviewedSha.length \in 7..40)
     \/ json.reviewDate # ReviewDate

\* C32: extractReviewMetadata returns null for empty input, text without a
\* marker, malformed JSON, a missing lastReviewedSha or reviewDate, a SHA
\* that is not 7 to 40 lower-case hex digits and an unparsable date, and
\* the record in every other case.
C32_NullCases ==
  \A i \in 1..(Len(extraction) - 1) :
    extraction[i].kind = "text" =>
      (extraction[i + 1].kind = "null"
         <=> RefusedAsSpecified(extraction[i].body))

\* the comments of the assistant identity that carry valid metadata
OwnTracking(comments) ==
  {i \in DOMAIN comments :
     /\ comments[i].login = claudeUsername
     /\ extractReviewMetadata(comments[i].body) # NullMetadata}

CallsOf(op) == {i \in DOMAIN resolve.calls : resolve.calls[i] = op}

\* C34: resolve_review_thread validates the id, queries the thread status,
\* replies and resolves, in this order: an id that fails validation causes
\* no remote call; a thread the status query reported as resolved never
\* gets the resolve mutation and the call still returns success; with a
\* non-blank comment the reply is issued before the resolve; and a failed
\* reply to an open thread is followed by the resolve mutation.
C34_ValidateStatusReplyResolve ==
  resolve.pc # "idle" =>
    /\ ~validateGitHubReviewThreadId(resolve.threadId).valid
         => resolve.calls = <<>>
    /\ \A i \in CallsOf("status") :
         \A j \in CallsOf("reply") \cup CallsOf("resolve") : i < j
    /\ CallsOf("reply") \cup CallsOf("resolve") # {}
         => CallsOf("status") # {}
    /\ resolve.node = "resolved" =>
         /\ CallsOf("resolve") = {}
         /\ resolve.pc = "returned" => resolve.result.success
    /\ hasComment(resolve.body) =>
         \A j \in CallsOf("resolve") : \E i \in CallsOf("reply") : i < j
    /\ resolve.reply = "failed" /\ resolve.node = "open"
         => CallsOf("resolve") # {}

\* an open thread was resolved although the reply to it had failed
C34_Witness ==
  /\ resolve.pc = "returned"
  /\ resolve.node = "open"
  /\ resolve.reply = "failed"
  /\ resolve.result.success
  /\ Len(resolve.calls) > 3

\* C35: bulk_resolve_threads posts the optional comment to each thread at
\* most once per invocation, whatever fails and is retried while the
\* thread is checked or resolved.
C35_CommentPostedOnce ==
  bulk.pc # "idle" =>
    \A k \in DOMAIN bulk.threads : bulk.threads[k].posted <= 1

ResolvedThreads == {k \in DOMAIN bulk.threads :
                      bulk.threads[k].remote = "resolved"}

\* C36: bulk_resolve_threads reports success only if every requested
\* thread ended up resolved, its resolved count is the number of these
\* threads, and every thread that was skipped or whose resolution failed
\* appears in the reported failures.
C36_BulkReport ==
  bulk.pc = "returned" /\ bulk.response.kind = "report" =>
    /\ bulk.response.success => ResolvedThreads = DOMAIN bulk.threads
    /\ bulk.response.resolved = Cardinality(ResolvedThreads)
    /\ \A k \in DOMAIN bulk.threads \ ResolvedThreads :
         \E i \in DOMAIN bulk.errors : bulk.errors[i] = k

\* the text of a thread key, `${comment.path}:${comment.line || "null"}`,
\* as the id validation reads it: it starts with the path, holds a colon,
\* which is outside [A-Za-z0-9_+-/], and is as long as the path, the colon
\* and the digits of the line
keyText(key) ==
  ThreadIdText("none", "other",
               (IF key[1] = "" THEN 0 ELSE 8) + 1
                 + (IF key[2] < 10 THEN 1 ELSE 2))

PlannedIds ==
  {threadActions.threadsToResolve[i].threadId :
     i \in DOMAIN threadActions.threadsToResolve}
    \cup {threadActions.threadsToReplyTo[i].threadId :
            i \in DOMAIN threadActions.threadsToReplyTo}

\* C37: every thread id the planner emits in threadsToResolve or
\* threadsToReplyTo is accepted by validateGitHubReviewThreadId, the check
\* that guards resolve_review_thread and bulk_resolve_threads.
C37_PlannedIdsAccepted ==
  threadActions.done =>
    \A id \in PlannedIds : validateGitHubReviewThreadId(keyText(id)).valid

\* C38: fetchAllReviewThreads terminates whatever the remote answers: in
\* every run the call eventually returns or throws.
C38_FetchTerminates == <>(fetch.pc \in {"returned", "threw"})

\* a commit id as the commit-hash check reads it
ShaOfCommit(commitSha) ==
  CASE commitSha = "c0ffee1" -> Sha("lower", 7)
    [] commitSha = HeadSha -> Sha("lower", 40)
    [] OTHER -> Sha("other", 4)

\* the metadata addTrackingCommentMetadata builds: the date is
\* new Date().toISOString(), the review id a number in decimal
trackingMetadata(commitSha, reviewId) ==
  Metadata(ShaOfCommit(commitSha), ReviewDate, "123")

\* C39: the marker written to the tracking comment after a successful
\* submission is accepted by extractReviewMetadata at the next read,
\* whatever commit_id the caller passed and also when none was passed.
C39_WrittenMarkerAccepted ==
  local.metadata = "written" =>
    extractReviewMetadata(
      <<Prose>> \o generateMetadataText(
                     trackingMetadata(CommitSha, local.reviewId)))
      # NullMetadata

\* the plan of the call of item k: chosen from its first failure
FirstPlan(k) ==
  getRecoveryConfig(categorizeError(items[k].firstError), batch.isCritical)

\* C40: one withErrorRecovery call invokes the operation at most
\* 1 + maxAttempts times, maxAttempts being that of the plan chosen from
\* the category of the first failure; retryWithBackoff is entered once and
\* only under a retry plan, whatever the later attempts throw.
C40_AttemptsBounded ==
  \A k \in DOMAIN items :
    /\ items[k].firstError = NoError => items[k].attempts <= 1
    /\ items[k].attempts <= 1 + FirstPlan(k).maxAttempts
    /\ items[k].backoffCalls <= 1
    /\ items[k].backoffCalls = 1 => FirstPlan(k).strategy = "retry"
    /\ FirstPlan(k).strategy # "retry" => items[k].attempts <= 1

\* every attempt of a retry plan was made, and the last one failed with an
\* error of another category than the first
C40_Witness ==
  \E k \in DOMAIN items :
    /\ items[k].pc = "settled"
    /\ items[k].outcome.kind = "raise"
    /\ FirstPlan(k).strategy = "retry"
    /\ items[k].attempts = 1 + FirstPlan(k).maxAttempts
    /\ getRecoveryConfig(categorizeError(items[k].outcome.error),
                         batch.isCritical).strategy = "fail_fast"

====
